---- MODULE Spec2Model ----
(***************************************************************************)
(* State-machine model of the prediction-state engine: EloTracker,         *)
(* StatsTracker, GameProcessor, StateManager and the update_state driver.  *)
(*                                                                         *)
(* Ratings are fixed-point integers: one unit is 1/Scale of a rating       *)
(* point.  With K_FACTOR = 20 and probabilities in per-mille, Scale = 50   *)
(* makes K * (result - p) an exact integer number of units.                *)
(* Calendar dates are day ordinals; the ISO string "YYYY-MM-DD" that the   *)
(* code stores is the triple <<y, m, d>>, compared lexicographically as    *)
(* the strings are.                                                        *)
(***************************************************************************)
EXTENDS Integers, Sequences, FiniteSets, TLC

---------------------------------------------------------------------------
(* Program constants *)

DEFAULT_ELO == 1500
K_FACTOR == 20
HOME_COURT_ADVANTAGE == 70
SEASON_CARRYOVER_PCT == 70
WINDOW_SIZE == 10

NBA_SEASON_START_MONTH == 10

(* Fixed-point resolution of a rating: units per rating point, chosen so   *)
(* that K_FACTOR * (result - p) is a whole number of units for p in       *)
(* per-mille.                                                             *)
Scale == 1000 \div K_FACTOR

---------------------------------------------------------------------------
(* Bounds of the model *)

(* Operations in one behaviour of the tracker specifications. *)
MaxOps == 3

(* Operations in one behaviour of the state-store specification. *)
MaxStoreOps == 5

(* Operations in one behaviour of the backfill specification, and the dates of one run. *)
MaxBackfillOps == 5
BackfillDays == 3

(* Operations in one behaviour of the preview specification. *)
MaxPreviewOps == 2

---------------------------------------------------------------------------
(* Input universes *)

None == "None"
NoFile == "NoFile"

(* An unresolved team id (Optional[int] = None). *)
NoId == -1

TeamIds == {3, 12}
OptTeamIds == TeamIds \cup {NoId}

(* Day ordinals, counted from 2026-01-30 = 0 (so the range crosses a month end). *)
Days == 0 .. 2

Statuses == {"Final", "FINAL", "In Progress", "Scheduled"}

(* (home_score, away_score) pairs: a home win, an away win, a tie. *)
Scores == {<<101, 99>>, <<95, 110>>}

---------------------------------------------------------------------------
(* Generic helpers *)

Min(a, b) == IF a < b THEN a ELSE b
Max(a, b) == IF a > b THEN a ELSE b

(* dict[k] = v *)
Put(f, k, v) == [x \in (DOMAIN f) \cup {k} |-> IF x = k THEN v ELSE f[x]]

EmptyDict == [x \in {} |-> 0]

RECURSIVE SumOver(_, _)
SumOver(f, S) ==
  IF S = {} THEN 0
  ELSE LET x == CHOOSE y \in S : TRUE IN f[x] + SumOver(f, S \ {x})

---------------------------------------------------------------------------
(* Dates: datetime.date <-> ISO string *)

DaysInMonth(y, m) ==
  IF m = 2 THEN (IF y % 4 = 0 THEN 29 ELSE 28)
  ELSE IF m \in {4, 6, 9, 11} THEN 30 ELSE 31

(* date + timedelta(days=n), n >= 0: within the month, or on from the first of the next *)
RECURSIVE AddDays(_, _)
AddDays(iso, n) ==
  LET y == iso[1]
      m == iso[2]
      d == iso[3]
      room == DaysInMonth(y, m) - d
  IN IF n <= room THEN <<y, m, d + n>>
     ELSE IF m < 12 THEN AddDays(<<y, m + 1, 1>>, n - room - 1)
     ELSE AddDays(<<y + 1, 1, 1>>, n - room - 1)

EpochIso == <<2026, 1, 30>>

(* date.isoformat() *)
isoformat(day) == AddDays(EpochIso, day)

(* datetime.fromisoformat(s).date(): the day whose ISO form is s *)
fromisoformat(iso) == CHOOSE day \in 0 .. 400 : isoformat(day) = iso

(* String comparison of two ISO dates (lexicographic). *)
IsoLeq(a, b) ==
  \/ a[1] < b[1]
  \/ a[1] = b[1] /\ a[2] < b[2]
  \/ a[1] = b[1] /\ a[2] = b[2] /\ a[3] <= b[3]

IsoDates == {isoformat(d) : d \in Days}

---------------------------------------------------------------------------
(* GameResult *)

(* str.lower() on the statuses the scoreboard reports *)
Lower(s) ==
  CASE s = "Final" -> "final"
    [] s = "FINAL" -> "final"
    [] s = "In Progress" -> "in progress"
    [] s = "Scheduled" -> "scheduled"
    [] OTHER -> s

is_final(result) == Lower(result.status) = "final"

home_won(result) == result.home_score > result.away_score

GameResult(d, h, a, sc, st) ==
  [game_date |-> d, home_team_id |-> h, away_team_id |-> a,
   home_score |-> sc[1], away_score |-> sc[2], status |-> st]

---------------------------------------------------------------------------
(* EloTracker *)

(* 1000 / (1 + 10^(-x/400)) for x = -400, -390, ..., 400 rating points *)
LogisticTable ==
  << 91, 96, 101, 106, 112, 118, 124, 130, 137, 144, 151, 159, 166, 174,
     183, 192, 201, 210, 220, 230, 240, 251, 262, 273, 285, 297, 309, 321,
     334, 347, 360, 373, 387, 401, 415, 429, 443, 457, 471, 486, 500, 514,
     529, 543, 557, 571, 585, 599, 613, 627, 640, 653, 666, 679, 691, 703,
     715, 727, 738, 749, 760, 770, 780, 790, 799, 808, 817, 826, 834, 841,
     849, 856, 863, 870, 876, 882, 888, 894, 899, 904, 909 >>

(* Floor division that is also right for negative numerators. *)
FloorDiv(a, b) == IF a >= 0 THEN a \div b ELSE -((-a + b - 1) \div b)

(* 1 / (1 + 10 ** exponent), in per-mille, exponent = -(x / Scale) / 400 *)
Logistic(x) ==
  LET step == FloorDiv(x, 10 * Scale)
      idx == Max(1, Min(Len(LogisticTable), step + 41))
  IN LogisticTable[idx]

get_elo(r, team_id) == IF team_id \in DOMAIN r THEN r[team_id] ELSE DEFAULT_ELO * Scale

get_matchup_prob(r, home_id, away_id) ==
  Logistic(get_elo(r, home_id) - get_elo(r, away_id) + HOME_COURT_ADVANTAGE * Scale)

(* K_FACTOR * (result - p_home), in rating units *)
EloDelta(r, home_id, away_id, won) ==
  (K_FACTOR * Scale * ((IF won THEN 1000 ELSE 0) - get_matchup_prob(r, home_id, away_id))) \div 1000

EloUpdateMutAwayKept(r, home_id, away_id, won) ==
  Put(r, home_id, get_elo(r, home_id) + EloDelta(r, home_id, away_id, won))

(* EloTracker.update: the home rating is stored first, the away rating second *)
EloUpdate(r, home_id, away_id, won) ==
  LET e_home_new == get_elo(r, home_id) + EloDelta(r, home_id, away_id, won)
      e_away_new == get_elo(r, away_id) - EloDelta(r, home_id, away_id, won)
  IN Put(Put(r, home_id, e_home_new), away_id, e_away_new)

(* EloTracker.apply_season_regression *)
SeasonRegression(r) ==
  [t \in DOMAIN r |->
     (SEASON_CARRYOVER_PCT * r[t] + (100 - SEASON_CARRYOVER_PCT) * DEFAULT_ELO * Scale) \div 100]

---------------------------------------------------------------------------
(* StatsTracker *)

LastN(s, n) == IF Len(s) <= n THEN s ELSE SubSeq(s, Len(s) - n + 1, Len(s))

DequeAppendMutUnbounded(q, x) == Append(q, x)

(* deque(maxlen=WINDOW_SIZE).append *)
DequeAppend(q, x) == LastN(Append(q, x), WINDOW_SIZE)

(* StatsTracker._get_team_deque: creates the empty deque of an unseen team *)
EnsureDeque(tg, team_id) == IF team_id \in DOMAIN tg THEN tg ELSE Put(tg, team_id, <<>>)

GameRecord(pf, pa, won, iso) == [pf |-> pf, pa |-> pa, won |-> won, date |-> iso]

(* record_game's game_date argument: <<"str", iso>> or <<"date", day>>; a date *)
(* object is stored as isoformat()[:10]                                        *)
DateArg(game_date) == IF game_date[1] = "date" THEN isoformat(game_date[2]) ELSE game_date[2]

(* StatsTracker.record_game, game_date already a string *)
RecordGame(tg, team_id, pf, pa, won, iso) ==
  LET tg1 == EnsureDeque(tg, team_id)
  IN Put(tg1, team_id, DequeAppend(tg1[team_id], GameRecord(pf, pa, won, iso)))

---------------------------------------------------------------------------
(* GameProcessor *)

(* GameProcessor._game_key: (game_date, home_team_id or 0, away_team_id or 0) *)
OrZero(id) == IF id = NoId \/ id = 0 THEN 0 ELSE id

_game_key(result) == <<result.game_date, OrZero(result.home_team_id), OrZero(result.away_team_id)>>

MarkProcessedMutForget(pg, key) == pg

(* self._processed_games.add(key) *)
MarkProcessed(pg, key) == pg \cup {key}

IsFinalGateMutOpen(result) == TRUE

(* the gate "if not result.is_final: return False" lets the result through *)
IsFinalGate(result) == is_final(result)

IdsResolved(result) == result.home_team_id # NoId /\ result.away_team_id # NoId

(* The in-memory state of one process: the two trackers and the dedup set. *)
Mem(r, tg, pg) == [ratings |-> r, team_games |-> tg, processed_games |-> pg]

(* GameProcessor.process_game: the state after the call and the value returned *)
process_game(m, result, force) ==
  IF ~IsFinalGate(result) THEN [mem |-> m, ret |-> FALSE]
  ELSE IF ~IdsResolved(result) THEN [mem |-> m, ret |-> FALSE]
  ELSE IF ~force /\ _game_key(result) \in m.processed_games THEN [mem |-> m, ret |-> FALSE]
  ELSE
    LET home_id == result.home_team_id
        away_id == result.away_team_id
        won == home_won(result)
        r1 == EloUpdate(m.ratings, home_id, away_id, won)
        tg1 == RecordGame(m.team_games, home_id, result.home_score, result.away_score,
                          won, result.game_date)
        tg2 == RecordGame(tg1, away_id, result.away_score, result.home_score,
                          ~won, result.game_date)
    IN [mem |-> Mem(r1, tg2, MarkProcessed(m.processed_games, _game_key(result))),
        ret |-> TRUE]


(* round(x, 1) of a rating: the nearest tenth of a point.  A rating is a whole *)
(* number of units and a tenth is Scale / 10 units, so no value lies halfway.  *)
Round1(x) ==
  LET tenth == Scale \div 10 IN FloorDiv(2 * x + tenth, 2 * tenth) * tenth

(* GameProcessor.preview_game: the dict returned; the keys of a skipped result *)
(* that the dict does not have are 0 here.                                     *)
preview_game(r, result) ==
  IF ~is_final(result)
  THEN [would_process |-> FALSE, reason |-> "Game not final",
        current_home_elo |-> 0, current_away_elo |-> 0, new_home_elo |-> 0, new_away_elo |-> 0]
  ELSE IF ~IdsResolved(result)
  THEN [would_process |-> FALSE, reason |-> "Could not map team names to IDs",
        current_home_elo |-> 0, current_away_elo |-> 0, new_home_elo |-> 0, new_away_elo |-> 0]
  ELSE
    LET home_id == result.home_team_id
        away_id == result.away_team_id
        current_home_elo == get_elo(r, home_id)
        current_away_elo == get_elo(r, away_id)
        elo_change == EloDelta(r, home_id, away_id, home_won(result))
    IN [would_process |-> TRUE, reason |-> "",
        current_home_elo |-> Round1(current_home_elo),
        current_away_elo |-> Round1(current_away_elo),
        new_home_elo |-> Round1(current_home_elo + elo_change),
        new_away_elo |-> Round1(current_away_elo - elo_change)]

---------------------------------------------------------------------------
(* JSON documents: an object is a function from key strings to values; a key *)
(* string is the sequence of its characters.                                 *)

DigitChars == <<"0", "1", "2", "3", "4", "5", "6", "7", "8", "9">>

(* str(k) of a non-negative int *)
RECURSIVE str(_)
str(n) == IF n < 10 THEN <<DigitChars[n + 1]>> ELSE str(n \div 10) \o <<DigitChars[(n % 10) + 1]>>

DigitValue(c) == (CHOOSE d \in 1 .. 10 : DigitChars[d] = c) - 1

intMutLastDigit(s) == DigitValue(s[Len(s)])

(* int(k) of a decimal string *)
RECURSIVE int(_)
int(s) ==
  IF Len(s) = 1 THEN DigitValue(s[1])
  ELSE 10 * int(SubSeq(s, 1, Len(s) - 1)) + DigitValue(s[Len(s)])

(* {str(k): v for k, v in d.items()}: a later item overwrites an equal key *)
StrKeys(d) ==
  LET ks == {str(k) : k \in DOMAIN d}
  IN [key \in ks |-> d[CHOOSE k \in DOMAIN d : str(k) = key]]

(* {int(k): v for k, v in data.items()} *)
IntKeys(doc) ==
  LET ks == {int(key) : key \in DOMAIN doc}
  IN [k \in ks |-> doc[CHOOSE key \in DOMAIN doc : int(key) = k]]

(* A file of the state directory: <<>> when absent, <<document>> when present. *)
Absent == <<>>
Exists(f) == f # Absent
Content(f) == f[1]
FileOf(doc) == <<doc>>

(* EloTracker.save: the document written to elo.json *)
EloSave(r) == StrKeys(r)

(* EloTracker.__init__(initial_ratings) *)
EloInit(initial_ratings) == [k \in DOMAIN initial_ratings |-> initial_ratings[k]]

(* EloTracker.from_file *)
EloFromFile(doc) == EloInit(IntKeys(doc))

(* StatsTracker.save: the document written to stats.json *)
StatsSave(tg) == StrKeys(tg)

(* StatsTracker.__init__(initial_state): the last WINDOW_SIZE games of each list *)
StatsInit(initial_state) ==
  [k \in DOMAIN initial_state |-> LastN(initial_state[k], WINDOW_SIZE)]

(* StatsTracker.from_file *)
StatsFromFile(doc) == StatsInit(IntKeys(doc))

---------------------------------------------------------------------------
(* StateManager: the state directory is a record of its five files *)

Dir(e, s, eb, sb, md) == [elo |-> e, stats |-> s, elo_bak |-> eb, stats_bak |-> sb, metadata |-> md]

(* StateManager._load_metadata: last_processed_date None is <<>>, last_updated None is 0 *)
_load_metadata(d) ==
  IF Exists(d.metadata) THEN Content(d.metadata)
  ELSE [last_processed_date |-> <<>>, last_updated |-> 0,
        games_processed_total |-> 0, version |-> "1.0"]

(* StateManager._save_metadata *)
_save_metadata(d, md) == [d EXCEPT !.metadata = FileOf([md EXCEPT !.version = "1.0"])]

(* StateManager.exists *)
exists(d) == Exists(d.elo) /\ Exists(d.stats)

(* StateManager.load: the two trackers (the caller builds its processor around them) *)
load(d) ==
  [ratings |-> IF Exists(d.elo) THEN EloFromFile(Content(d.elo)) ELSE EmptyDict,
   team_games |-> IF Exists(d.stats) THEN StatsFromFile(Content(d.stats)) ELSE EmptyDict]

SaveStepsMutWriteFirst(d, r, tg, create_backup, n, now) ==
  LET d1 == IF n >= 1 THEN [d EXCEPT !.elo = FileOf(EloSave(r))] ELSE d
      d2 == IF n >= 2 THEN [d1 EXCEPT !.stats = FileOf(StatsSave(tg))] ELSE d1
      d3 == IF n >= 3 /\ create_backup THEN [d2 EXCEPT !.elo_bak = d2.elo] ELSE d2
  IN IF n >= 4 /\ create_backup THEN [d3 EXCEPT !.stats_bak = d3.stats] ELSE d3

(* StateManager.save, stopped after its first n steps (n = 5: the whole call):     *)
(* 1 backup of elo.json, 2 backup of stats.json, 3 write of elo.json, 4 write of   *)
(* stats.json, 5 update of metadata.last_updated.                                  *)
SaveSteps(d, r, tg, create_backup, n, now) ==
  LET d1 == IF n >= 1 /\ create_backup /\ Exists(d.elo) THEN [d EXCEPT !.elo_bak = d.elo] ELSE d
      d2 == IF n >= 2 /\ create_backup /\ Exists(d1.stats)
            THEN [d1 EXCEPT !.stats_bak = d1.stats] ELSE d1
      d3 == IF n >= 3 THEN [d2 EXCEPT !.elo = FileOf(EloSave(r))] ELSE d2
      d4 == IF n >= 4 THEN [d3 EXCEPT !.stats = FileOf(StatsSave(tg))] ELSE d3
  IN IF n >= 5 THEN _save_metadata(d4, [_load_metadata(d4) EXCEPT !.last_updated = now]) ELSE d4

save(d, r, tg, create_backup, now) == SaveSteps(d, r, tg, create_backup, 5, now)

(* StateManager.get_last_processed_date: <<>> for None, <<day>> for a date *)
get_last_processed_date(d) ==
  LET date_str == _load_metadata(d).last_processed_date
  IN IF date_str # <<>> THEN <<fromisoformat(date_str)>> ELSE <<>>

(* StateManager.set_last_processed_date(processed_date: date) *)
set_last_processed_date(d, day, now) ==
  _save_metadata(d, [_load_metadata(d) EXCEPT !.last_processed_date = isoformat(day),
                                              !.last_updated = now])

(* StateManager.increment_games_processed *)
increment_games_processed(d, count) ==
  _save_metadata(d, [_load_metadata(d) EXCEPT
                       !.games_processed_total = _load_metadata(d).games_processed_total + count])

RestoreGateMutEither(d) == Exists(d.elo_bak) \/ Exists(d.stats_bak)

(* restore_backup proceeds: elo_backup.exists() and stats_backup.exists() *)
RestoreGate(d) == Exists(d.elo_bak) /\ Exists(d.stats_bak)

restore_backupMutMovesBackup(d) ==
  IF ~RestoreGate(d) THEN [dir |-> d, ret |-> FALSE]
  ELSE [dir |-> [d EXCEPT !.elo = d.elo_bak, !.stats = d.stats_bak, !.elo_bak = Absent,
                          !.stats_bak = Absent],
        ret |-> TRUE]

(* StateManager.restore_backup: the directory after the call and the value returned *)
restore_backup(d) ==
  IF ~RestoreGate(d) THEN [dir |-> d, ret |-> FALSE]
  ELSE [dir |-> [d EXCEPT !.elo = d.elo_bak, !.stats = d.stats_bak], ret |-> TRUE]

---------------------------------------------------------------------------
(* InjuryCache (src/core/injury_cache.py) *)

INJURY_CACHE_TTL == 14400

(* datetime.isoformat() and datetime.fromisoformat(): a timestamp in seconds since the *)
(* epoch day, and its text <<year, month, day, hour, minute, second>>.                 *)
DtIsoformat(t) ==
  isoformat(t \div 86400) \o <<(t % 86400) \div 3600, (t % 3600) \div 60, t % 60>>

DtFromisoformat(iso) ==
  fromisoformat(SubSeq(iso, 1, 3)) * 86400 + iso[4] * 3600 + iso[5] * 60 + iso[6]

(* A Python dict, which keeps insertion order: a sequence of <<key, value>> pairs. *)
DictKeys(d) == {d[i][1] : i \in 1 .. Len(d)}
DictHas(d, k) == k \in DictKeys(d)
DictGet(d, k) == d[CHOOSE i \in 1 .. Len(d) : d[i][1] = k][2]
DictSet(d, k, v) ==
  IF DictHas(d, k) THEN [i \in 1 .. Len(d) |-> IF d[i][1] = k THEN <<k, v>> ELSE d[i]]
  ELSE Append(d, <<k, v>>)
DictPop(d, k) == SelectSeq(d, LAMBDA kv : kv[1] # k)
DictAsMap(d) == [k \in DictKeys(d) |-> DictGet(d, k)]

EntryFields ==
  {"team_id", "team_name", "adjustment", "severity", "injuries_count",
   "injuries_summary", "cached_at"}

CachedInjuryData(team_id, team_name, adjustment, severity, injuries_count, injuries_summary, cached_at) ==
  [team_id |-> team_id, team_name |-> team_name, adjustment |-> adjustment,
   severity |-> severity, injuries_count |-> injuries_count,
   injuries_summary |-> injuries_summary, cached_at |-> cached_at]

age_seconds(entry, now) == now - DtFromisoformat(entry.cached_at)

IsExpiredMutAtTtl(entry, ttl, now) == age_seconds(entry, now) >= ttl

(* CachedInjuryData.is_expired *)
is_expired(entry, ttl, now) == age_seconds(entry, now) > ttl

(* An Optional entry: <<>> is None. *)
NoEntry == <<>>

(* InjuryCache.get: the returned entry; the cache is only read. *)
CacheGet(c, ttl, now, team_id, allow_stale) ==
  IF ~DictHas(c, team_id) THEN NoEntry
  ELSE LET entry == DictGet(c, team_id) IN
       IF ~is_expired(entry, ttl, now) THEN <<entry>>
       ELSE IF allow_stale THEN <<entry>>
       ELSE NoEntry

(* InjuryCache.set: the cache after the call. *)
CacheSet(c, now, team_id, team_name, adjustment, severity, injuries_count, injuries_summary) ==
  DictSet(c, team_id,
          CachedInjuryData(team_id, team_name, adjustment, severity, injuries_count,
                           injuries_summary, DtIsoformat(now)))

(* InjuryCache.clear: team is <<>> (None: clear all) or <<team_id>>. *)
CacheClear(c, team) == IF team # <<>> THEN DictPop(c, team[1]) ELSE <<>>

(* InjuryCache.clear_expired: the ids it finds expired, in cache order. *)
ExpiredIds(c, ttl, now) ==
  LET exp == SelectSeq(c, LAMBDA kv : is_expired(kv[2], ttl, now)) IN
  [i \in 1 .. Len(exp) |-> exp[i][1]]

SeqRange(q) == {q[i] : i \in 1 .. Len(q)}

CacheClearExpired(c, ttl, now) ==
  LET ids == ExpiredIds(c, ttl, now) IN
  [cache |-> SelectSeq(c, LAMBDA kv : kv[1] \notin SeqRange(ids)), ret |-> Len(ids)]

(* InjuryCache.get_stats *)
CacheGetStats(c, ttl, now) ==
  LET total == Len(c)
      expired == Len(ExpiredIds(c, ttl, now))
      ages == IF c # <<>> THEN [i \in 1 .. Len(c) |-> age_seconds(c[i][2], now)] ELSE <<0>>
      S[i \in 0 .. Len(ages)] == IF i = 0 THEN 0 ELSE S[i - 1] + ages[i] IN
  [total_entries |-> total, fresh_entries |-> total - expired,
   expired_entries |-> expired, average_age_seconds |-> S[Len(ages)] \div Len(ages),
   ttl_seconds |-> ttl]

SnapshotDocMutFreshOnly(c, ttl, now) ==
  LET fresh == SelectSeq(c, LAMBDA kv : ~is_expired(kv[2], ttl, now)) IN
  [kind |-> "json", cached_at |-> DtIsoformat(now), ttl |-> ttl,
   entries |-> [i \in 1 .. Len(fresh) |-> <<str(fresh[i][1]), fresh[i][2]>>]]

(* The snapshot document. A file that is not JSON has kind "garbage". *)
SnapshotDoc(c, ttl, now) ==
  [kind |-> "json", cached_at |-> DtIsoformat(now), ttl |-> ttl,
   entries |-> [i \in 1 .. Len(c) |-> <<str(c[i][1]), c[i][2]>>]]

Garbage == [kind |-> "garbage", cached_at |-> <<>>, ttl |-> 0, entries |-> <<>>]

(* InjuryCache._save_to_disk: the file after the call. A write that fails after *)
(* open(..., 'w') leaves a truncated file; the exception is swallowed.            *)
_save_to_disk(c, ttl, now, write_ok) ==
  IF write_ok THEN FileOf(SnapshotDoc(c, ttl, now)) ELSE FileOf(Garbage)

IsDigits(key) == key # <<>> /\ \A i \in 1 .. Len(key) : \E d \in 1 .. 10 : DigitChars[d] = key[i]

(* int(team_id_str), the CachedInjuryData constructor and is_expired succeed on the pair. *)
EntryLoads(kv) ==
  /\ IsDigits(kv[1])
  /\ DOMAIN kv[2] = EntryFields
  /\ Len(kv[2].cached_at) = 6

RECURSIVE LoadEntries(_, _, _, _)
(* The loop of _load_from_disk: an exception at an entry ends the loop and is *)
(* swallowed; what was stored before it stays stored.                          *)
LoadEntries(entries, acc, ttl, now) ==
  IF entries = <<>> THEN acc
  ELSE LET kv == Head(entries) IN
       IF ~EntryLoads(kv) THEN acc
       ELSE LoadEntries(Tail(entries),
                        IF ~is_expired(kv[2], ttl, now)
                        THEN DictSet(acc, int(kv[1]), kv[2]) ELSE acc,
                        ttl, now)

(* InjuryCache._load_from_disk: the cache after it. *)
_load_from_disk(file, ttl, now) ==
  IF ~Exists(file) THEN <<>>
  ELSE IF Content(file).kind # "json" THEN <<>>
  ELSE LoadEntries(Content(file).entries, <<>>, ttl, now)

(* InjuryCache.__init__: the cache of the constructed object. *)
InjuryCacheInit(p, file, ttl, now) == IF p THEN _load_from_disk(file, ttl, now) ELSE <<>>

---------------------------------------------------------------------------
(* InjuryClient and calculate_injury_adjustment (src/core/injury_client.py) *)

INJURY_ADJUSTMENT_MULTIPLIER == 20
INJURY_MAX_ADJUSTMENT == -100
INJURY_MIN_ADJUSTMENT == -5

(* str.lower() on the status texts of the injury feed *)
StatusLower(s) ==
  CASE s = "Out" -> "out"
    [] s = "OUT" -> "out"
    [] s = "O" -> "o"
    [] s = "Doubtful" -> "doubtful"
    [] s = "Questionable" -> "questionable"
    [] s = "Day-To-Day" -> "day-to-day"
    [] s = "Probable" -> "probable"
    [] s = "Q" -> "q"
    [] s = "D" -> "d"
    [] s = "DTD" -> "dtd"
    [] OTHER -> s

PlayerInjury(player_name, status) == [player_name |-> player_name, status |-> status]

is_out(inj) == StatusLower(inj.status) \in {"out", "o"}
is_questionable(inj) == StatusLower(inj.status) \in {"questionable", "q"}

(* PlayerInjury.severity_score, in quarters: 1.0 is 4 *)
severity_score(inj) ==
  LET status_lower == StatusLower(inj.status) IN
  IF status_lower \in {"out", "o"} THEN 4
  ELSE IF status_lower \in {"doubtful", "d"} THEN 3
  ELSE IF status_lower \in {"questionable", "q"} THEN 2
  ELSE IF status_lower \in {"day-to-day", "dtd"} THEN 1
  ELSE 0

TeamInjuryReport(team_id, team_name, injuries) ==
  [team_id |-> team_id, team_name |-> team_name, injuries |-> injuries]

SeqSum(q) ==
  LET S[i \in 0 .. Len(q)] == IF i = 0 THEN 0 ELSE S[i - 1] + q[i] IN S[Len(q)]

(* TeamInjuryReport.total_severity (quarters), players_out, players_questionable *)
total_severity(report) ==
  SeqSum([i \in 1 .. Len(report.injuries) |-> severity_score(report.injuries[i])])
players_out(report) == SelectSeq(report.injuries, is_out)
players_questionable(report) == SelectSeq(report.injuries, is_questionable)

(* player_importance.ALL_STAR_PLAYERS, two of its names *)
ALL_STAR_PLAYERS == {"Nikola Jokic", "Jayson Tatum"}

(* get_player_importance_multiplier, in halves: 2.5 is 5, 1.5 is 3 *)
get_player_importance_multiplier(player_name) ==
  IF player_name \in ALL_STAR_PLAYERS THEN 5 ELSE 3

(* severity * importance * INJURY_ADJUSTMENT_MULTIPLIER, in rating units *)
PlayerImpact(inj, use_player_importance) ==
  LET importance == IF use_player_importance
                    THEN get_player_importance_multiplier(inj.player_name) ELSE 2 IN
  (severity_score(inj) * importance * INJURY_ADJUSTMENT_MULTIPLIER * Scale) \div 8

ApplyBoundsMutSnapAtMin(adjustment) ==
  IF adjustment < INJURY_MAX_ADJUSTMENT * Scale THEN INJURY_MAX_ADJUSTMENT * Scale
  ELSE IF adjustment >= INJURY_MIN_ADJUSTMENT * Scale THEN 0
  ELSE adjustment

(* calculate_injury_adjustment: "Apply bounds" *)
ApplyBounds(adjustment) ==
  IF adjustment < INJURY_MAX_ADJUSTMENT * Scale THEN INJURY_MAX_ADJUSTMENT * Scale
  ELSE IF adjustment > INJURY_MIN_ADJUSTMENT * Scale THEN 0
  ELSE adjustment

calculate_injury_adjustment(report, use_player_importance, enabled) ==
  IF report.injuries = <<>> THEN 0
  ELSE IF ~enabled THEN 0
  ELSE LET total_impact ==
             SeqSum([i \in 1 .. Len(report.injuries) |->
                       PlayerImpact(report.injuries[i], use_player_importance)])
       IN ApplyBounds(-total_impact)

(* What InjuryClient.get_team_injuries(team_id) does, given what the request to ESPN *)
(* does (answer): the report of the team; None when the answer has no such team, and *)
(* also when the request fails, because get_all_injuries catches RequestException    *)
(* and returns {}; any other exception (an answer of unexpected shape) is raised.    *)
get_team_injuries(answer) ==
  CASE answer.kind = "report" -> [raised |-> FALSE, report |-> <<answer.report>>]
    [] answer.kind = "no_team" -> [raised |-> FALSE, report |-> <<>>]
    [] answer.kind = "request_error" -> [raised |-> FALSE, report |-> <<>>]
    [] answer.kind = "bad_answer" -> [raised |-> TRUE, report |-> <<>>]

---------------------------------------------------------------------------
(* StatsTracker reads and FeatureBuilder (src/core/stats_tracker.py, feature_builder.py) *)

DEFAULT_REST_DAYS == 7

(* StatsTracker.get_rolling_stats over the history games; averages in thousandths *)
get_rolling_stats(games) ==
  IF games = <<>>
  THEN [pf_roll |-> 110000, pa_roll |-> 110000, win_roll |-> 500, margin_roll |-> 0,
        games_in_window |-> 0]
  ELSE LET n == Len(games)
           pf_sum == SeqSum([i \in 1 .. n |-> games[i].pf])
           pa_sum == SeqSum([i \in 1 .. n |-> games[i].pa])
           win_sum == SeqSum([i \in 1 .. n |-> IF games[i].won THEN 1 ELSE 0])
           pf_roll == (pf_sum * 1000) \div n
           pa_roll == (pa_sum * 1000) \div n
       IN [pf_roll |-> pf_roll, pa_roll |-> pa_roll, win_roll |-> (win_sum * 1000) \div n,
           margin_roll |-> pf_roll - pa_roll, games_in_window |-> n]

get_rest_daysMutB2bWithinOne(games, game_date) ==
  LET day == IF game_date[1] = "str" THEN fromisoformat(game_date[2]) ELSE game_date[2] IN
  IF games = <<>> THEN [rest_days |-> DEFAULT_REST_DAYS, is_b2b |-> FALSE]
  ELSE LET last_date == fromisoformat(games[Len(games)].date)
           rest_days == Max(0, Min(14, day - last_date))
       IN [rest_days |-> rest_days, is_b2b |-> (rest_days <= 1)]

(* StatsTracker.get_rest_days over the history games; game_date is <<"date", day>> or *)
(* <<"str", iso>>                                                                      *)
get_rest_days(games, game_date) ==
  LET day == IF game_date[1] = "str" THEN fromisoformat(game_date[2]) ELSE game_date[2] IN
  IF games = <<>> THEN [rest_days |-> DEFAULT_REST_DAYS, is_b2b |-> FALSE]
  ELSE LET last_date == fromisoformat(games[Len(games)].date)
           rest_days == Max(0, Min(14, day - last_date))
       IN [rest_days |-> rest_days, is_b2b |-> (rest_days = 1)]

FEATURE_COLS ==
  << "elo_home", "elo_away", "elo_diff", "elo_prob",
     "pf_roll_home", "pf_roll_away", "pf_roll_diff",
     "pa_roll_home", "pa_roll_away", "pa_roll_diff",
     "win_roll_home", "win_roll_away", "win_roll_diff",
     "margin_roll_home", "margin_roll_away", "margin_roll_diff",
     "games_in_window_home", "games_in_window_away",
     "home_rest_days", "away_rest_days",
     "home_b2b", "away_b2b", "rest_diff",
     "market_prob_home", "market_prob_away",
     "home_players_out", "away_players_out",
     "home_players_questionable", "away_players_questionable",
     "home_injury_severity", "away_injury_severity" >>

(* FeatureBuilder._injury_adjustments_enabled *)
InjuryAdjustmentsEnabled(cfg) == cfg.INJURY_ADJUSTMENTS_ENABLED /\ cfg.has_client

(* `if self.injury_cache:` is bool() of an object that defines __len__ *)
Truthy(c) == Len(c) > 0

ZeroFeatures == [adj |-> 0, players_out |-> 0, players_q |-> 0, severity |-> 0]

FromCached(entry) ==
  [adj |-> entry.adjustment, players_out |-> 0, players_q |-> 0, severity |-> entry.severity]

(* `if INJURY_FALLBACK_ON_ERROR:` in the except clause *)
FallbackGate(cfg) == cfg.INJURY_FALLBACK_ON_ERROR

(* FeatureBuilder._get_injury_features: the tuple returned (or raised), and the cache *)
(* after the call, and whether set was called; answer is what the request to ESPN     *)
(* does.                                                                               *)
_get_injury_features(cfg, c, now, team_id, answer) ==
  LET zero == [raised |-> FALSE, feat |-> ZeroFeatures, cache |-> c, stored |-> FALSE]
      hit == IF Truthy(c) THEN CacheGet(c, INJURY_CACHE_TTL, now, team_id, FALSE) ELSE NoEntry
      fetched == get_team_injuries(answer)
  IN IF ~InjuryAdjustmentsEnabled(cfg) THEN zero
     ELSE IF hit # NoEntry THEN [zero EXCEPT !.feat = FromCached(hit[1])]
     ELSE IF ~fetched.raised
     THEN IF fetched.report # <<>>
          THEN LET injury_report == fetched.report[1]
                   adjustment == calculate_injury_adjustment(injury_report, TRUE,
                                                             cfg.INJURY_ADJUSTMENTS_ENABLED)
                   severity == total_severity(injury_report)
               IN [raised |-> FALSE,
                   feat |-> [adj |-> adjustment,
                             players_out |-> Len(players_out(injury_report)),
                             players_q |-> Len(players_questionable(injury_report)),
                             severity |-> severity],
                   cache |-> IF Truthy(c)
                             THEN CacheSet(c, now, team_id, injury_report.team_name,
                                           adjustment, severity, Len(injury_report.injuries),
                                           [i \in 1 .. Len(injury_report.injuries) |->
                                              <<injury_report.injuries[i].player_name,
                                                injury_report.injuries[i].status>>])
                             ELSE c,
                   stored |-> Truthy(c)]
          ELSE zero
     ELSE IF FallbackGate(cfg)
     THEN LET stale == IF Truthy(c) /\ cfg.INJURY_USE_STALE_CACHE
                       THEN CacheGet(c, INJURY_CACHE_TTL, now, team_id, TRUE) ELSE NoEntry
          IN IF stale # NoEntry THEN [zero EXCEPT !.feat = FromCached(stale[1])] ELSE zero
     ELSE [zero EXCEPT !.raised = TRUE]

(* What InjuryClient.get_all_injuries() does, given what the request to ESPN does:    *)
(* the dict of reports, in the order of the answer; {} when the request fails; any   *)
(* other exception (an answer of unexpected shape) is raised.                        *)
get_all_injuries(answer) ==
  CASE answer.kind = "reports" -> [raised |-> FALSE, reports |-> answer.reports]
    [] answer.kind = "request_error" -> [raised |-> FALSE, reports |-> <<>>]
    [] answer.kind = "bad_answer" -> [raised |-> TRUE, reports |-> <<>>]

(* "for team_id, report in all_reports.items()": the cache and the number of set calls *)
(* after the reports from the i-th on; the cache is tested for truth at each report.   *)
RECURSIVE PrefetchLoop(_, _, _, _, _)
PrefetchLoop(cfg, acc, now, all_reports, i) ==
  IF i > Len(all_reports) THEN acc
  ELSE
    LET team_id == all_reports[i][1]
        report == all_reports[i][2]
        adjustment == calculate_injury_adjustment(report, TRUE, cfg.INJURY_ADJUSTMENTS_ENABLED)
        stored == Truthy(acc.cache)
    IN PrefetchLoop(cfg,
                    [cache |-> IF stored
                               THEN CacheSet(acc.cache, now, team_id, report.team_name,
                                             adjustment, total_severity(report),
                                             Len(report.injuries),
                                             [j \in 1 .. Len(report.injuries) |->
                                                <<report.injuries[j].player_name,
                                                  report.injuries[j].status>>])
                               ELSE acc.cache,
                     sets |-> acc.sets + (IF stored THEN 1 ELSE 0)],
                    now, all_reports, i + 1)

(* FeatureBuilder.prefetch_all_injuries: the value returned, the cache after the call *)
(* and the number of set calls made.  log is LOG_INJURY_ADJUSTMENTS: its message      *)
(* names INJURY_CACHE_TTL, which feature_builder.py does not import, so printing it   *)
(* raises NameError inside the try block and the except branch returns 0.             *)
prefetch_all_injuries(cfg, log, c, now, answer) ==
  LET fetched == get_all_injuries(answer)
      done == PrefetchLoop(cfg, [cache |-> c, sets |-> 0], now, fetched.reports, 1)
  IN IF ~InjuryAdjustmentsEnabled(cfg) THEN [ret |-> 0, cache |-> c, sets |-> 0]
     ELSE IF fetched.raised THEN [ret |-> 0, cache |-> c, sets |-> 0]
     ELSE IF log THEN [ret |-> 0, cache |-> done.cache, sets |-> done.sets]
     ELSE [ret |-> Len(fetched.reports), cache |-> done.cache, sets |-> done.sets]

(* get_implied_prob, in thousandths; ml is <<>> (None) or <<moneyline>> *)
get_implied_prob(ml) ==
  IF ml = <<>> THEN 500
  ELSE IF ml[1] > 0 THEN (100 * 1000) \div (ml[1] + 100)
  ELSE ((-ml[1]) * 1000) \div ((-ml[1]) + 100)

FeatureVectorMutNoMarket(loc) ==
  [i \in 1 .. 29 |-> loc[FEATURE_COLS[IF i < 24 THEN i ELSE i + 2]]]

(* np.array([...]) of build_features: the locals in the order written *)
FeatureVector(loc) ==
  << loc.elo_home, loc.elo_away, loc.elo_diff, loc.elo_prob,
     loc.pf_roll_home, loc.pf_roll_away, loc.pf_roll_diff,
     loc.pa_roll_home, loc.pa_roll_away, loc.pa_roll_diff,
     loc.win_roll_home, loc.win_roll_away, loc.win_roll_diff,
     loc.margin_roll_home, loc.margin_roll_away, loc.margin_roll_diff,
     loc.games_in_window_home, loc.games_in_window_away,
     loc.home_rest_days, loc.away_rest_days,
     loc.home_b2b, loc.away_b2b, loc.rest_diff,
     loc.market_prob_home, loc.market_prob_away,
     loc.home_players_out, loc.away_players_out,
     loc.home_players_questionable, loc.away_players_questionable,
     loc.home_injury_severity, loc.away_injury_severity >>

(* The locals of build_features that the vector is built from: lines 157-219. hf, af *)
(* are the injury tuples of the two teams, then their rolling stats and rest days.   *)
FeatureLocals(r, home_id, away_id, hf, af, home_stats, away_stats, home_rest, away_rest, ml_home, ml_away) ==
  [elo_home |-> get_elo(r, home_id) + hf.adj,
   elo_away |-> get_elo(r, away_id) + af.adj,
   elo_diff |-> (get_elo(r, home_id) + hf.adj) - (get_elo(r, away_id) + af.adj),
   elo_prob |-> get_matchup_prob(r, home_id, away_id),
   pf_roll_home |-> home_stats.pf_roll, pf_roll_away |-> away_stats.pf_roll,
   pf_roll_diff |-> home_stats.pf_roll - away_stats.pf_roll,
   pa_roll_home |-> home_stats.pa_roll, pa_roll_away |-> away_stats.pa_roll,
   pa_roll_diff |-> home_stats.pa_roll - away_stats.pa_roll,
   win_roll_home |-> home_stats.win_roll, win_roll_away |-> away_stats.win_roll,
   win_roll_diff |-> home_stats.win_roll - away_stats.win_roll,
   margin_roll_home |-> home_stats.margin_roll,
   margin_roll_away |-> away_stats.margin_roll,
   margin_roll_diff |-> home_stats.margin_roll - away_stats.margin_roll,
   games_in_window_home |-> home_stats.games_in_window,
   games_in_window_away |-> away_stats.games_in_window,
   home_rest_days |-> home_rest.rest_days, away_rest_days |-> away_rest.rest_days,
   home_b2b |-> IF home_rest.is_b2b THEN 1 ELSE 0,
   away_b2b |-> IF away_rest.is_b2b THEN 1 ELSE 0,
   rest_diff |-> home_rest.rest_days - away_rest.rest_days,
   market_prob_home |-> get_implied_prob(ml_home),
   market_prob_away |-> get_implied_prob(ml_away),
   home_players_out |-> hf.players_out, away_players_out |-> af.players_out,
   home_players_questionable |-> hf.players_q,
   away_players_questionable |-> af.players_q,
   home_injury_severity |-> hf.severity, away_injury_severity |-> af.severity]

(* The two _get_injury_features calls of build_features, home first: the away call *)
(* sees the cache the home call left. A call that raises ends build_features.      *)
InjuryFeatures(cfg, c, now, home_id, away_id, answers) ==
  LET home == _get_injury_features(cfg, c, now, home_id, answers[home_id])
      NotCalled == [raised |-> FALSE, feat |-> ZeroFeatures, cache |-> c, stored |-> FALSE]
      After(h) ==
        IF h.raised THEN [raised |-> TRUE, home |-> h, away |-> NotCalled, cache |-> h.cache]
        ELSE LET away == _get_injury_features(cfg, h.cache, now, away_id, answers[away_id])
                 Both(a) == [raised |-> a.raised, home |-> h, away |-> a, cache |-> a.cache]
             IN Both(away)
  IN IF InjuryAdjustmentsEnabled(cfg) THEN After(home)
     ELSE [raised |-> FALSE, home |-> NotCalled, away |-> NotCalled, cache |-> c]

(* The statements of build_features after the injury features: rolling stats and rest *)
(* days of both teams (each read goes through _get_team_deque), then the vector.      *)
AssembleFeatures(r, tg, home_id, away_id, game_date, ml_home, ml_away, inj) ==
  LET tg1 == EnsureDeque(tg, home_id)
      tg2 == EnsureDeque(tg1, away_id)
      Result(loc) ==
        [raised |-> FALSE, features |-> FeatureVector(loc), named |-> loc,
         adj |-> <<inj.home.feat.adj, inj.away.feat.adj>>,
         team_games |-> tg2, cache |-> inj.cache,
         stored |-> inj.home.stored \/ inj.away.stored]
  IN Result(FeatureLocals(r, home_id, away_id, inj.home.feat, inj.away.feat,
                          get_rolling_stats(tg1[home_id]), get_rolling_stats(tg2[away_id]),
                          get_rest_days(tg2[home_id], game_date),
                          get_rest_days(tg2[away_id], game_date), ml_home, ml_away))

(* FeatureBuilder.build_features. answers gives, per team, what the request to ESPN  *)
(* does during the call. The result: raised, the vector, the locals it was built     *)
(* from, the two adjustments, the history map and the cache after the call, and      *)
(* whether the cache was written.                                                    *)
build_features(cfg, r, tg, c, now, home_id, away_id, game_date, ml_home, ml_away, answers) ==
  LET Finish(inj) ==
        IF inj.raised
        THEN [raised |-> TRUE, features |-> <<>>, named |-> <<>>, adj |-> <<0, 0>>,
              team_games |-> tg,
              cache |-> inj.cache, stored |-> inj.home.stored \/ inj.away.stored]
        ELSE AssembleFeatures(r, tg, home_id, away_id, game_date, ml_home, ml_away, inj)
  IN Finish(InjuryFeatures(cfg, c, now, home_id, away_id, answers))

---------------------------------------------------------------------------
(* ConfidenceScorer (src/core/confidence_scorer.py). Probabilities are in thousandths, *)
(* win_roll_diff in thousandths, margin_roll_diff in thousandths of a point, margin    *)
(* standard deviations in tenths of a point, and every score in 1/120 of a point, so   *)
(* the linear interpolations of the five factors are exact.                            *)

PointUnit == 120

CONSENSUS_PERFECT_THRESH == 30
CONSENSUS_ZERO_THRESH == 150
VOLATILITY_LOW_THRESH == 50
VOLATILITY_HIGH_THRESH == 150
HISTORY_DECISIVE_THRESH == 250
HISTORY_TOSSUP_THRESH == 50

Abs(x) == IF x < 0 THEN -x ELSE x

(* The position of each name in FEATURE_COLS *)
ColumnIndex ==
  [name \in {FEATURE_COLS[i] : i \in 1 .. Len(FEATURE_COLS)} |->
     CHOOSE i \in 1 .. Len(FEATURE_COLS) : FEATURE_COLS[i] = name]

(* dict(zip(FEATURE_COLS, features)).get(name, default): zip stops at the shorter of *)
(* the two, so a name is a key iff the vector has its position.                       *)
FeatureGet(features, name, default) ==
  IF ColumnIndex[name] <= Len(features) THEN features[ColumnIndex[name]] ELSE default

(* floor of the square root, found by bisection between lo and hi *)
RECURSIVE Bisect(_, _, _)
Bisect(x, lo, hi) ==
  IF lo >= hi THEN lo
  ELSE IF ((lo + hi + 1) \div 2) * ((lo + hi + 1) \div 2) <= x
  THEN Bisect(x, (lo + hi + 1) \div 2, hi)
  ELSE Bisect(x, lo, ((lo + hi + 1) \div 2) - 1)

ISqrt(x) == Bisect(x, 0, 1023)

(* The margin_std a team without two recorded games is given, in tenths. *)
MODERATE_DEFAULT_STD == 100

(* StatsTracker.get_form_volatility: the standard deviation (tenths) and the range of *)
(* the score margins of the window; a moderate default below two games.               *)
get_form_volatility(tg, team_id) ==
  LET games == IF team_id \in DOMAIN tg THEN tg[team_id] ELSE <<>>
      n == Len(games)
      margins == [i \in 1 .. n |-> games[i].pf - games[i].pa]
      sum == SeqSum(margins)
      sumsq == SeqSum([i \in 1 .. n |-> margins[i] * margins[i]])
      highest == CHOOSE m \in {margins[i] : i \in 1 .. n} :
                   \A i \in 1 .. n : margins[i] <= m
      lowest == CHOOSE m \in {margins[i] : i \in 1 .. n} :
                  \A i \in 1 .. n : margins[i] >= m
  IN IF n < 2 THEN [margin_std |-> MODERATE_DEFAULT_STD, margin_range |-> 0]
     ELSE [margin_std |-> ISqrt(100 * (n * sumsq - sum * sum)) \div n,
           margin_range |-> highest - lowest]

(* ConfidenceScorer._score_consensus_agreement, max 25 *)
_score_consensus_agreement(prob_home, features) ==
  LET market_prob_home == FeatureGet(features, "market_prob_home", 500)
      disagreement == Abs(prob_home - market_prob_home)
  IN IF Abs(market_prob_home - 500) < 10 THEN 15 * PointUnit
     ELSE IF disagreement <= CONSENSUS_PERFECT_THRESH THEN 25 * PointUnit
     ELSE IF disagreement >= CONSENSUS_ZERO_THRESH THEN 0
     ELSE (25 * PointUnit * (CONSENSUS_ZERO_THRESH - disagreement))
            \div (CONSENSUS_ZERO_THRESH - CONSENSUS_PERFECT_THRESH)

(* ConfidenceScorer._score_feature_alignment, max 25 *)
_score_feature_alignment(prob_home, features) ==
  LET model_favors_home == prob_home > 500
      elo_prob == FeatureGet(features, "elo_prob", 500)
      win_diff == FeatureGet(features, "win_roll_diff", 0)
      margin_diff == FeatureGet(features, "margin_roll_diff", 0)
      rest_diff == FeatureGet(features, "rest_diff", 0)
      s1 == IF (elo_prob > 500) = model_favors_home THEN 1 ELSE 0
      s2 == IF (win_diff > 0) = model_favors_home \/ Abs(win_diff) < 50 THEN 1 ELSE 0
      s3 == IF (margin_diff > 0) = model_favors_home \/ Abs(margin_diff) < 1000 THEN 1 ELSE 0
      s4 == IF Abs(rest_diff) >= 2 /\ (rest_diff > 0) = model_favors_home THEN 1 ELSE 0
      total_signals == IF Abs(rest_diff) >= 2 THEN 4 ELSE 3
  IN (25 * PointUnit * (s1 + s2 + s3 + s4)) \div total_signals

(* ConfidenceScorer._score_form_stability, max 20; avg_std is (home + away) / 2 *)
_score_form_stability(tg, home_id, away_id) ==
  LET home_std == get_form_volatility(tg, home_id).margin_std
      away_std == get_form_volatility(tg, away_id).margin_std
      twice_avg == home_std + away_std
  IN IF twice_avg <= 2 * VOLATILITY_LOW_THRESH THEN 20 * PointUnit
     ELSE IF twice_avg >= 2 * VOLATILITY_HIGH_THRESH THEN 5 * PointUnit
     ELSE 20 * PointUnit
            - (15 * PointUnit * (twice_avg - 2 * VOLATILITY_LOW_THRESH))
                \div (2 * (VOLATILITY_HIGH_THRESH - VOLATILITY_LOW_THRESH))

ScheduleClampMutNone(score) == score

(* max(0.0, min(15.0, score)) *)
ScheduleClamp(score) == Max(0, Min(15 * PointUnit, score))

(* ConfidenceScorer._score_schedule_context, max 15 *)
_score_schedule_context(features) ==
  LET home_b2b == FeatureGet(features, "home_b2b", 0) # 0
      away_b2b == FeatureGet(features, "away_b2b", 0) # 0
      rest_diff == Abs(FeatureGet(features, "rest_diff", 0))
  IN ScheduleClamp(15 * PointUnit
                     - (IF home_b2b THEN 5 * PointUnit ELSE 0)
                     - (IF away_b2b THEN 5 * PointUnit ELSE 0)
                     + (IF rest_diff >= 2 THEN 5 * PointUnit ELSE 0))

(* ConfidenceScorer._score_matchup_history, max 15 *)
_score_matchup_history(prob_home) ==
  LET distance_from_tossup == Abs(prob_home - 500) IN
  IF distance_from_tossup >= HISTORY_DECISIVE_THRESH THEN 15 * PointUnit
  ELSE IF distance_from_tossup <= HISTORY_TOSSUP_THRESH THEN 5 * PointUnit
  ELSE 5 * PointUnit
         + (10 * PointUnit * (distance_from_tossup - HISTORY_TOSSUP_THRESH))
             \div (HISTORY_DECISIVE_THRESH - HISTORY_TOSSUP_THRESH)

(* round() of a non-negative number of points: to the nearest integer, a half to the *)
(* even one.                                                                          *)
Round(x) ==
  LET q == x \div PointUnit
      r == x % PointUnit
  IN IF 2 * r < PointUnit THEN q
     ELSE IF 2 * r > PointUnit THEN q + 1
     ELSE IF q % 2 = 0 THEN q ELSE q + 1

(* ConfidenceScorer.calculate_confidence_score: the score and the five factors *)
calculate_confidence_score(tg, prob_home, features, home_id, away_id) ==
  LET Total(consensus, alignment, volatility, schedule, history) ==
        [score |-> Max(0, Min(100, Round(consensus + alignment + volatility
                                           + schedule + history))),
         factors |-> [consensus_agreement |-> consensus, feature_alignment |-> alignment,
                      form_stability |-> volatility, schedule_context |-> schedule,
                      matchup_history |-> history]]
  IN Total(_score_consensus_agreement(prob_home, features),
           _score_feature_alignment(prob_home, features),
           _score_form_stability(tg, home_id, away_id),
           _score_schedule_context(features),
           _score_matchup_history(prob_home))

---------------------------------------------------------------------------
(* State *)

VARIABLES
  ratings,          \* EloTracker._ratings: team id -> rating (fixed-point units)
  team_games,       \* StatsTracker._team_games: team id -> sequence of records
  processed_games,  \* GameProcessor._processed_games
  elo_file,         \* state/elo.json
  stats_file,       \* state/stats.json
  elo_bak,          \* state/elo.json.bak
  stats_bak,        \* state/stats.json.bak
  metadata,         \* state/metadata.json
  last,             \* the last operation: its name, arguments, return value, and the
                    \* name of the operation before it
  delivered,        \* history: (date, home, away) of the valid results delivered with
                    \* force=False since the dedup set was last empty
  inserted,         \* history: per team, every record given to its history since the
                    \* tracker was constructed, oldest first
  save_log,         \* history: the trackers written by the latest run of consecutive
                    \* complete saves with create_backup=True
  nops,             \* number of operations performed so far (the clock)
  _cache,           \* InjuryCache._cache: the entries, in insertion order
  clock,            \* datetime.now(), in seconds since the epoch day
  cache_file,       \* the snapshot file of the InjuryCache
  persist,          \* InjuryCache.persist
  lock,             \* InjuryCache._lock: the thread that holds it, or NoThread
  threads,          \* per thread: the call it is in, its position and its locals
  config,           \* the INJURY_* settings the FeatureBuilder was imported with
  backfill,         \* backfill_state.main(): the locals of its loop over the dates
  _global_cache,    \* injury_cache._global_cache: the instance it names, or NoInstance
  instances,        \* the InjuryCache objects constructed so far, each one's entries
  callers           \* per thread in get_global_cache: its position and what it returned

gvars == <<backfill, _global_cache, instances, callers>>

cvars == <<_cache, clock, cache_file, persist, lock, threads, config, gvars>>

vars == <<nops, ratings, team_games, processed_games, elo_file, stats_file, elo_bak,
          stats_bak, metadata, delivered, inserted, save_log, cvars, last>>

files == <<elo_file, stats_file, elo_bak, stats_bak, metadata>>

CurMem == Mem(ratings, team_games, processed_games)

SetMem(m) ==
  /\ ratings' = m.ratings
  /\ team_games' = m.team_games
  /\ processed_games' = m.processed_games

CurDir == Dir(elo_file, stats_file, elo_bak, stats_bak, metadata)

SetDir(d) ==
  /\ elo_file' = d.elo
  /\ stats_file' = d.stats
  /\ elo_bak' = d.elo_bak
  /\ stats_bak' = d.stats_bak
  /\ metadata' = d.metadata

Call(op, arg, ret) == [op |-> op, arg |-> arg, ret |-> ret, prev |-> last.op]

(* One more operation, within a budget of B operations. *)
Step(B) == nops < B /\ nops' = nops + 1

(* One more operation of the trackers, the store or the driver: none of them touches *)
(* the InjuryCache, its file, its threads or the settings.                           *)
Tick(B) == Step(B) /\ UNCHANGED cvars

Triple(result) == <<result.game_date, result.home_team_id, result.away_team_id>>

(* The records an accepted result is to add: the home record, then the away record. *)
Ins(ins, t, rec) == Put(ins, t, Append(IF t \in DOMAIN ins THEN ins[t] ELSE <<>>, rec))

InsertedAfter(ins, result, accepted) ==
  IF ~accepted THEN ins
  ELSE Ins(Ins(ins, result.home_team_id,
               GameRecord(result.home_score, result.away_score,
                          result.home_score > result.away_score, result.game_date)),
           result.away_team_id,
           GameRecord(result.away_score, result.home_score,
                      ~(result.home_score > result.away_score), result.game_date))

ProcDates == {isoformat(1), isoformat(2)}

(* Finalized results with both ids resolved; (3, 3) is a result whose two ids agree. *)
ProcPairs == {<<3, 12>>, <<12, 3>>, <<3, 3>>}
ValidResults ==
  {GameResult(d, p[1], p[2], sc, "Final") : d \in ProcDates, p \in ProcPairs, sc \in Scores}

(* Results that are not final, or that have an unresolved id. *)
RejectedResults ==
  { GameResult(isoformat(1), 3, 12, <<55, 50>>, "In Progress"),
    GameResult(isoformat(2), 12, 3, <<0, 0>>, "Scheduled"),
    GameResult(isoformat(1), NoId, 12, <<101, 99>>, "Final"),
    GameResult(isoformat(2), 3, NoId, <<95, 110>>, "FINAL") }

ProcResults == ValidResults \cup RejectedResults

InitMemEmpty ==
  /\ ratings = EmptyDict
  /\ team_games = EmptyDict
  /\ processed_games = {}
  /\ delivered = {}
  /\ inserted = EmptyDict

InitNoFiles ==
  /\ elo_file = Absent
  /\ stats_file = Absent
  /\ elo_bak = Absent
  /\ stats_bak = Absent
  /\ metadata = Absent
  /\ save_log = <<>>

NoThread == 0

(* _global_cache = None *)
NoInstance == 0

(* No backfill run has started. *)
NoBackfill == [phase |-> "idle"]

(* The settings of src/core/config.py when no environment variable overrides them. *)
DefaultConfig ==
  [INJURY_ADJUSTMENTS_ENABLED |-> TRUE, INJURY_FALLBACK_ON_ERROR |-> TRUE,
   INJURY_USE_STALE_CACHE |-> TRUE, has_client |-> TRUE]

(* A process that has called neither backfill_state.main nor get_global_cache. *)
InitNoGlobals ==
  /\ backfill = NoBackfill
  /\ _global_cache = NoInstance
  /\ instances = <<>>
  /\ callers = <<>>

(* A process that has constructed no InjuryCache and started no thread. *)
InitNoCache ==
  /\ InitNoGlobals
  /\ _cache = <<>>
  /\ clock = 0
  /\ cache_file = Absent
  /\ persist = FALSE
  /\ lock = NoThread
  /\ threads = <<>>
  /\ config = DefaultConfig

InitProc ==
  /\ InitMemEmpty
  /\ InitNoFiles
  /\ InitNoCache
  /\ last = [op |-> "init", arg |-> None, ret |-> None, prev |-> "init"]
  /\ nops = 0

---------------------------------------------------------------------------
(* Operations on the in-memory trackers *)

ProcessGameIn(results, forces, B) ==
  \E result \in results, force \in forces :
    LET out == process_game(CurMem, result, force) IN
    /\ Tick(B)
    /\ SetMem(out.mem)
    /\ last' = Call("process_game", [result |-> result, force |-> force], out.ret)
    /\ delivered' = IF is_final(result) /\ IdsResolved(result) /\ ~force
                    THEN delivered \cup {Triple(result)} ELSE delivered
    /\ inserted' = InsertedAfter(inserted, result, out.ret)
    /\ UNCHANGED <<files, save_log>>

EloUpdateCall(B) ==
  \E p \in {<<3, 12>>, <<3, 3>>}, won \in BOOLEAN :
    LET home_id == p[1]
        away_id == p[2] IN
    /\ Tick(B)
    /\ ratings' = EloUpdate(ratings, home_id, away_id, won)
    /\ last' = Call("update", [home_id |-> home_id, away_id |-> away_id, home_won |-> won],
                    <<get_elo(ratings', home_id), get_elo(ratings', away_id)>>)
    /\ UNCHANGED <<team_games, processed_games, delivered, inserted, files, save_log>>

ApplySeasonRegression(B) ==
  /\ Tick(B)
  /\ ratings' = SeasonRegression(ratings)
  /\ last' = Call("apply_season_regression", None, None)
  /\ UNCHANGED <<team_games, processed_games, delivered, inserted, files, save_log>>

(* GameProcessor.clear_processed *)
ClearProcessed(B) ==
  /\ Tick(B)
  /\ processed_games' = {}
  /\ delivered' = {}
  /\ last' = Call("clear_processed", None, None)
  /\ UNCHANGED <<ratings, team_games, inserted, files, save_log>>

(* StatsTracker.get_rolling_stats / get_rest_days / get_team_game_count: each goes *)
(* through _get_team_deque, which stores an empty deque for an unseen team.        *)
ReadStats(teams, B) ==
  \E team_id \in teams :
    /\ Tick(B)
    /\ team_games' = EnsureDeque(team_games, team_id)
    /\ last' = Call("get_team_game_count", team_id, Len(team_games'[team_id]))
    /\ UNCHANGED <<ratings, processed_games, delivered, inserted, files, save_log>>

NextProc ==
  \/ ProcessGameIn(ProcResults, BOOLEAN, MaxOps)
  \/ EloUpdateCall(MaxOps)
  \/ ApplySeasonRegression(MaxOps)
  \/ ClearProcessed(MaxOps)
  \/ ReadStats(TeamIds, MaxOps)

SpecProc == InitProc /\ [][NextProc]_vars

---------------------------------------------------------------------------
(* Operations on the state directory *)

Snapshot(r, tg) == [ratings |-> r, team_games |-> tg]

LiveHolds(d, snap) ==
  /\ d.elo = FileOf(EloSave(snap.ratings))
  /\ d.stats = FileOf(StatsSave(snap.team_games))

(* The run of consecutive complete saves with create_backup=True, after a save of *)
(* snap in directory d: the run goes on only if the live files still hold what    *)
(* the previous save of the run wrote.                                            *)
SaveLogAfter(log, d, snap, create_backup, n) ==
  IF ~(create_backup /\ n = 5) THEN <<>>
  ELSE IF log # <<>> /\ LiveHolds(d, log[Len(log)]) THEN Append(log, snap)
  ELSE <<snap>>

(* Where a save may stop: after any of its steps that changes a file. *)
SaveStops(create_backup) == IF create_backup THEN 1 .. 5 ELSE 3 .. 5

Save(B) ==
  \E create_backup \in BOOLEAN :
    \E n \in SaveStops(create_backup) :
      /\ Tick(B)
      /\ SetDir(SaveSteps(CurDir, ratings, team_games, create_backup, n, nops'))
      /\ save_log' = SaveLogAfter(save_log, CurDir, Snapshot(ratings, team_games),
                                  create_backup, n)
      /\ last' = Call(IF n = 5 THEN "save" ELSE "save_interrupted",
                      [create_backup |-> create_backup, steps |-> n], None)
      /\ UNCHANGED <<ratings, team_games, processed_games, delivered, inserted>>

(* StateManager.load by a process that then works on the loaded trackers *)
Load(B) ==
  /\ Tick(B)
  /\ ratings' = load(CurDir).ratings
  /\ team_games' = load(CurDir).team_games
  /\ processed_games' = {}
  /\ delivered' = {}
  /\ inserted' = IF Exists(stats_file) THEN IntKeys(Content(stats_file)) ELSE EmptyDict
  /\ last' = Call("load", None, None)
  /\ UNCHANGED <<files, save_log>>

RestoreBackup(B) ==
  LET out == restore_backup(CurDir) IN
  /\ Tick(B)
  /\ SetDir(out.dir)
  /\ last' = Call("restore_backup", None, out.ret)
  /\ UNCHANGED <<ratings, team_games, processed_games, delivered, inserted, save_log>>

(* Trackers built by their constructors from initial dicts. *)
StoreInitRatings == (3 :> (1510 * Scale)) @@ (12 :> (1490 * Scale))
StoreInitGames ==
  (3 :> <<GameRecord(98, 100, FALSE, isoformat(0)), GameRecord(120, 100, TRUE, isoformat(0))>>)

InitStore ==
  /\ ratings = EloInit(StoreInitRatings)
  /\ team_games = StatsInit(StoreInitGames)
  /\ processed_games = {}
  /\ delivered = {}
  /\ inserted = StoreInitGames
  /\ InitNoFiles
  /\ last = [op |-> "init", arg |-> None, ret |-> None, prev |-> "init"]
  /\ InitNoCache
  /\ nops = 0

StoreResults ==
  { GameResult(isoformat(1), 3, 12, <<101, 99>>, "Final"),
    GameResult(isoformat(2), 12, 3, <<95, 110>>, "Final") }

NextStore ==
  \/ ProcessGameIn(StoreResults, {FALSE}, MaxStoreOps)
  \/ ApplySeasonRegression(MaxStoreOps)
  \/ ReadStats({12}, MaxStoreOps)
  \/ Save(MaxStoreOps)
  \/ Load(MaxStoreOps)
  \/ RestoreBackup(MaxStoreOps)

SpecStore == InitStore /\ [][NextStore]_vars

---------------------------------------------------------------------------
(* The rolling window: direct record_game calls and trackers built from dicts *)

RecordGameCall(B) ==
  \E team_id \in TeamIds,
     g \in { <<101, 99, TRUE, <<"str", isoformat(1)>> >>,
             <<95, 110, FALSE, <<"date", 2>> >> } :
    /\ Tick(B)
    /\ team_games' = RecordGame(team_games, team_id, g[1], g[2], g[3], DateArg(g[4]))
    /\ inserted' = Ins(inserted, team_id, GameRecord(g[1], g[2], g[3], DateArg(g[4])))
    /\ last' = Call("record_game", [team_id |-> team_id, game |-> g], None)
    /\ UNCHANGED <<ratings, processed_games, delivered, files, save_log>>

(* A list of n games, told apart by their points. *)
GameList(n) == [i \in 1 .. n |-> GameRecord(100 + i, 100, TRUE, isoformat(0))]

WindowDicts ==
  { (3 :> GameList(WINDOW_SIZE + 2)),
    (3 :> GameList(WINDOW_SIZE - 1)) @@ (12 :> <<>>),
    (12 :> GameList(WINDOW_SIZE)) }

(* StatsTracker.from_dict(data), the processor then rebuilt around the new tracker *)
FromDict(B) ==
  \E data \in WindowDicts :
    /\ Tick(B)
    /\ team_games' = StatsInit(data)
    /\ inserted' = data
    /\ processed_games' = {}
    /\ delivered' = {}
    /\ last' = Call("from_dict", data, None)
    /\ UNCHANGED <<ratings, files, save_log>>

(* A state directory whose history file holds more than WINDOW_SIZE games of a team. *)
InitWindow ==
  /\ InitMemEmpty
  /\ elo_file = FileOf(EloSave(StoreInitRatings))
  /\ stats_file = FileOf(StatsSave(12 :> GameList(WINDOW_SIZE + 1)))
  /\ elo_bak = Absent
  /\ stats_bak = Absent
  /\ metadata = Absent
  /\ save_log = <<>>
  /\ last = [op |-> "init", arg |-> None, ret |-> None, prev |-> "init"]
  /\ InitNoCache
  /\ nops = 0

NextWindow ==
  \/ RecordGameCall(MaxOps)
  \/ ProcessGameIn(StoreResults, {FALSE}, MaxOps)
  \/ FromDict(MaxOps)
  \/ Load(MaxOps)

SpecWindow == InitWindow /\ [][NextWindow]_vars

---------------------------------------------------------------------------
(* The update_state driver: one run of main() is one action *)

(* GameProcessor.preview_game(result)["would_process"] *)
would_process(result) == is_final(result) /\ IdsResolved(result)

(* The loop over completed_games: preview, then process_game without force.     *)
(* acc carries the processor's memory, processed_count and the two histories of *)
(* what was delivered and what is to be recorded.                               *)
RECURSIVE ProcessLoop(_, _)
ProcessLoop(acc, games) ==
  IF games = <<>> THEN acc
  ELSE
    LET game == Head(games)
        out == IF would_process(game) THEN process_game(acc.mem, game, FALSE)
               ELSE [mem |-> acc.mem, ret |-> FALSE]
    IN ProcessLoop([mem |-> out.mem,
                    count |-> acc.count + (IF out.ret THEN 1 ELSE 0),
                    dlv |-> IF would_process(game) THEN acc.dlv \cup {Triple(game)} ELSE acc.dlv,
                    ins |-> InsertedAfter(acc.ins, game, out.ret)],
                   Tail(games))

(* "if last_processed and last_processed >= target_date and not args.force: return" *)
SkipGate(last_processed, target_date, force) ==
  last_processed # <<>> /\ last_processed[1] >= target_date /\ ~force

(* The three writes that end a run, stopped after the first n of their seven steps: *)
(* 1-5 the steps of save, 6 set_last_processed_date, 7 increment_games_processed.   *)
Persist(d, r, tg, target_date, count, n, now) ==
  LET d5 == SaveSteps(d, r, tg, TRUE, Min(n, 5), now)
      d6 == IF n >= 6 THEN set_last_processed_date(d5, target_date, now) ELSE d5
  IN IF n >= 7 THEN increment_games_processed(d6, count) ELSE d6

NoTrackers == Mem(EmptyDict, EmptyDict, {})

(* update_state.main(): the directory and the process's memory when the run ends. *)
(* fetched is what ESPNClient.get_games returned ([ok |-> FALSE] when it raised). *)
update_state(d, target_date, force, dry_run, fetched, n, now) ==
  LET quit(m, why) == [dir |-> d, mem |-> m, exit |-> why, dlv |-> {},
                       ins |-> m.team_games, saved |-> FALSE]
  IN
  IF SkipGate(get_last_processed_date(d), target_date, force)
  THEN quit(NoTrackers, "already processed")
  ELSE IF ~exists(d) THEN quit(NoTrackers, "no state")
  ELSE
    LET loaded == Mem(load(d).ratings, load(d).team_games, {}) IN
    IF ~fetched.ok THEN quit(loaded, "fetch error")
    ELSE
      LET completed_games == SelectSeq(fetched.games, is_final) IN
      IF completed_games = <<>> THEN quit(loaded, "no completed games")
      ELSE IF dry_run THEN quit(loaded, "dry run")
      ELSE
        LET acc == ProcessLoop([mem |-> loaded, count |-> 0, dlv |-> {},
                                ins |-> IntKeys(Content(d.stats))], completed_games)
        IN
        IF acc.count = 0
        THEN [dir |-> d, mem |-> acc.mem, exit |-> "none processed", dlv |-> acc.dlv,
              ins |-> acc.ins, saved |-> FALSE]
        ELSE [dir |-> Persist(d, acc.mem.ratings, acc.mem.team_games, target_date,
                              acc.count, n, now),
              mem |-> acc.mem,
              exit |-> IF n >= 7 THEN "complete" ELSE "stopped",
              dlv |-> acc.dlv, ins |-> acc.ins, saved |-> TRUE]

(* The scoreboard: the fixtures listed under each day.  The second fixture of day 0 *)
(* has a side the team mapper cannot resolve; the fixture of day 1 tips off late,   *)
(* so its UTC game_date is the next day.                                            *)
Fixtures(day) ==
  CASE day = 0 -> << GameResult(isoformat(0), 3, 12, <<101, 99>>, "Final"),
                     GameResult(isoformat(0), NoId, 12, <<88, 90>>, "Final") >>
    [] day = 1 -> << GameResult(isoformat(2), 12, 3, <<95, 110>>, "Final") >>
    [] day = 2 -> << GameResult(isoformat(2), 3, 12, <<97, 93>>, "Final") >>
    [] OTHER -> << >>

AllFixtures == UNION {{Fixtures(day)[i] : i \in 1 .. Len(Fixtures(day))} : day \in Days}

(* What get_games(target_date) may return: the day's fixtures, each one final or *)
(* still in progress; or an exception.                                           *)
FetchOutcomes(day) ==
  { [ok |-> TRUE,
     games |-> [i \in 1 .. Len(Fixtures(day)) |->
                  IF i \in F THEN Fixtures(day)[i]
                  ELSE [Fixtures(day)[i] EXCEPT !.status = "In Progress"]]] :
      F \in SUBSET (1 .. Len(Fixtures(day))) }
  \cup {[ok |-> FALSE, games |-> <<>>]}

(* Where a run that reached its writes may stop: after save, after *)
(* set_last_processed_date, or at its end.                         *)
RunStops == {5, 6, 7}

UpdateStateRun(forces, B) ==
  \E target_date \in Days, force \in forces, dry_run \in BOOLEAN :
    \E fetched \in FetchOutcomes(target_date), n \in RunStops :
      LET run == update_state(CurDir, target_date, force, dry_run, fetched, n, nops + 1) IN
      /\ Tick(B)
      /\ dry_run => n = 7
      /\ ~run.saved => n = 7
      /\ SetDir(run.dir)
      /\ SetMem(run.mem)
      /\ delivered' = run.dlv
      /\ inserted' = run.ins
      /\ save_log' = IF run.saved
                     THEN SaveLogAfter(save_log, CurDir,
                                       Snapshot(run.mem.ratings, run.mem.team_games), TRUE, 5)
                     ELSE save_log
      /\ last' = Call("update_state",
                      [target_date |-> target_date, force |-> force, dry_run |-> dry_run,
                       stop |-> n],
                      run.exit)

(* The state directory as bootstrap_state.py leaves it: the two tracker files, *)
(* no metadata, no backups.                                                    *)
BootGames ==
  (3 :> <<GameRecord(98, 100, FALSE, <<2026, 1, 28>>)>>)
    @@ (12 :> <<GameRecord(100, 98, TRUE, <<2026, 1, 28>>)>>)

InitBoot ==
  /\ InitMemEmpty
  /\ elo_file = FileOf(StrKeys(StoreInitRatings))
  /\ stats_file = FileOf(StrKeys(BootGames))
  /\ elo_bak = Absent
  /\ stats_bak = Absent
  /\ metadata = Absent
  /\ save_log = <<>>
  /\ last = [op |-> "init", arg |-> None, ret |-> None, prev |-> "init"]
  /\ InitNoCache
  /\ nops = 0

(* Runs without --force only. *)
NextRuns == UpdateStateRun({FALSE}, MaxOps)

SpecRuns == InitBoot /\ [][NextRuns]_vars

(* Runs with or without --force, and saves and restores by other processes. *)
NextDriver ==
  \/ UpdateStateRun(BOOLEAN, MaxOps)
  \/ Save(MaxOps)
  \/ RestoreBackup(MaxOps)

SpecDriver == InitBoot /\ [][NextDriver]_vars

---------------------------------------------------------------------------
(* One InjuryCache used from one thread, over a snapshot file *)

MaxCacheOps == 3
MaxTicks == 3

(* The clock moves in steps of half a TTL, so an entry is seen at ages below, at and *)
(* above the TTL.                                                                     *)
ClockStep == INJURY_CACHE_TTL \div 2

evars == <<ratings, team_games, processed_games, files, delivered, inserted, save_log>>

TeamName(team_id) == IF team_id = 3 THEN "Lakers" ELSE "Celtics"

(* What a caller gives to set: adjustment (fixed-point), severity (quarters), the *)
(* number of injuries and their summary.                                           *)
SetPayloads ==
  { [adjustment |-> -50 * Scale, severity |-> 4, injuries_count |-> 1,
     injuries_summary |-> <<"A (Out)">>],
    [adjustment |-> 0, severity |-> 0, injuries_count |-> 0, injuries_summary |-> <<>>] }

StartClock == MaxTicks * ClockStep

(* Entries of an existing snapshot: written one clock step ago, and written at time 0. *)
FreshEntry(team_id) ==
  CachedInjuryData(team_id, TeamName(team_id), -50 * Scale, 4, 1, <<"A (Out)">>,
                   DtIsoformat(StartClock - ClockStep))
OldEntry(team_id) ==
  CachedInjuryData(team_id, TeamName(team_id), -20 * Scale, 2, 1, <<"B (Questionable)">>,
                   DtIsoformat(0))
(* An entry dict with a field missing. *)
BadEntry(team_id) == [team_id |-> team_id, team_name |-> TeamName(team_id)]

JsonFile(entries) ==
  FileOf([kind |-> "json", cached_at |-> DtIsoformat(StartClock - ClockStep),
          ttl |-> INJURY_CACHE_TTL, entries |-> entries])

(* The snapshot files a cache may be constructed over. *)
SnapshotFiles ==
  { Absent,
    FileOf(Garbage),
    JsonFile(<<>>),
    JsonFile(<< <<str(3), FreshEntry(3)>>, <<str(12), OldEntry(12)>> >>),
    JsonFile(<< <<str(12), OldEntry(12)>> >>),
    JsonFile(<< <<str(3), FreshEntry(3)>>, <<str(12), BadEntry(12)>> >>),
    JsonFile(<< <<str(12), BadEntry(12)>>, <<str(3), FreshEntry(3)>> >>),
    JsonFile(<< <<str(3), FreshEntry(3)>>, <<<<"x">>, FreshEntry(12)>> >>) }

(* InjuryCache(ttl, persist, cache_file) over an existing file. *)
InitCache ==
  /\ InitNoGlobals
  /\ InitMemEmpty
  /\ InitNoFiles
  /\ clock = StartClock
  /\ cache_file \in SnapshotFiles
  /\ persist \in BOOLEAN
  /\ _cache = InjuryCacheInit(persist, cache_file, INJURY_CACHE_TTL, clock)
  /\ lock = NoThread
  /\ threads = <<>>
  /\ config = DefaultConfig
  /\ last = [op |-> "__init__", arg |-> None, ret |-> None, prev |-> "init"]
  /\ nops = 0

(* Time passes. *)
Advance ==
  /\ clock < StartClock + MaxTicks * ClockStep
  /\ clock' = clock + ClockStep
  /\ UNCHANGED <<nops, evars, _cache, cache_file, persist, lock, threads, config, gvars, last>>

Get(B) ==
  \E team_id \in TeamIds, allow_stale \in BOOLEAN :
    /\ Step(B)
    /\ last' = Call("get", [team_id |-> team_id, allow_stale |-> allow_stale],
                    CacheGet(_cache, INJURY_CACHE_TTL, clock, team_id, allow_stale))
    /\ UNCHANGED <<evars, cvars>>

Set(B) ==
  \E team_id \in TeamIds, pl \in SetPayloads, write_ok \in BOOLEAN :
    /\ Step(B)
    /\ _cache' = CacheSet(_cache, clock, team_id, TeamName(team_id), pl.adjustment,
                          pl.severity, pl.injuries_count, pl.injuries_summary)
    /\ cache_file' = IF persist
                     THEN _save_to_disk(_cache', INJURY_CACHE_TTL, clock, write_ok)
                     ELSE cache_file
    /\ last' = Call("set", [team_id |-> team_id, write_ok |-> write_ok], None)
    /\ UNCHANGED <<evars, clock, persist, lock, threads, config, gvars>>

Clear(B) ==
  \E team \in {<<>>} \cup {<<t>> : t \in TeamIds}, write_ok \in BOOLEAN :
    /\ Step(B)
    /\ _cache' = CacheClear(_cache, team)
    /\ cache_file' = IF persist
                     THEN _save_to_disk(_cache', INJURY_CACHE_TTL, clock, write_ok)
                     ELSE cache_file
    /\ last' = Call("clear", [team_id |-> team, write_ok |-> write_ok], None)
    /\ UNCHANGED <<evars, clock, persist, lock, threads, config, gvars>>

ClearExpired(B) ==
  \E write_ok \in BOOLEAN :
    LET out == CacheClearExpired(_cache, INJURY_CACHE_TTL, clock) IN
    /\ Step(B)
    /\ _cache' = out.cache
    /\ cache_file' = IF out.ret > 0 /\ persist
                     THEN _save_to_disk(_cache', INJURY_CACHE_TTL, clock, write_ok)
                     ELSE cache_file
    /\ last' = Call("clear_expired", [team_id |-> <<>>, write_ok |-> write_ok], out.ret)
    /\ UNCHANGED <<evars, clock, persist, lock, threads, config, gvars>>

GetStats(B) ==
  /\ Step(B)
  /\ last' = Call("get_stats", None, CacheGetStats(_cache, INJURY_CACHE_TTL, clock))
  /\ UNCHANGED <<evars, cvars>>

CacheLen(B) ==
  /\ Step(B)
  /\ last' = Call("__len__", None, Len(_cache))
  /\ UNCHANGED <<evars, cvars>>

(* The process ends and a new one constructs the cache again over the file. *)
Construct(B) ==
  /\ Step(B)
  /\ _cache' = InjuryCacheInit(persist, cache_file, INJURY_CACHE_TTL, clock)
  /\ last' = Call("__init__", None, None)
  /\ UNCHANGED <<evars, clock, cache_file, persist, lock, threads, config, gvars>>

NextCache ==
  \/ Advance
  \/ Get(MaxCacheOps)
  \/ Set(MaxCacheOps)
  \/ Clear(MaxCacheOps)
  \/ ClearExpired(MaxCacheOps)
  \/ GetStats(MaxCacheOps)
  \/ CacheLen(MaxCacheOps)
  \/ Construct(MaxCacheOps)

SpecCache == InitCache /\ [][NextCache]_vars

---------------------------------------------------------------------------
(* A FeatureBuilder over the two trackers, an InjuryClient and an InjuryCache. *)

MaxFeatureOps == 2

UnseenId == 7

FeatureTeams == TeamIds \cup {UnseenId}

(* The settings the modules were imported with. *)
Configs ==
  { DefaultConfig,
    [DefaultConfig EXCEPT !.INJURY_FALLBACK_ON_ERROR = FALSE],
    [DefaultConfig EXCEPT !.INJURY_USE_STALE_CACHE = FALSE],
    [DefaultConfig EXCEPT !.INJURY_ADJUSTMENTS_ENABLED = FALSE],
    [DefaultConfig EXCEPT !.has_client = FALSE] }

Report(team_id, injuries) ==
  [kind |-> "report", report |-> TeamInjuryReport(team_id, TeamName(team_id), injuries)]
RequestError == [kind |-> "request_error", report |-> <<>>]
BadAnswer == [kind |-> "bad_answer", report |-> <<>>]
NoTeam == [kind |-> "no_team", report |-> <<>>]

(* What the requests to ESPN do during one call, per team asked for. *)
FetchScenarios ==
  { [t \in FeatureTeams |-> RequestError],
    [t \in FeatureTeams |-> BadAnswer],
    [t \in FeatureTeams |-> NoTeam],
    (3 :> Report(3, <<PlayerInjury("Nikola Jokic", "Out")>>))
      @@ (12 :> Report(12, <<PlayerInjury("Nikola Jokic", "Out"),
                             PlayerInjury("Jayson Tatum", "O"),
                             PlayerInjury("Role Player", "Doubtful")>>))
      @@ (UnseenId :> NoTeam),
    (3 :> Report(3, <<PlayerInjury("Role Player", "Probable")>>))
      @@ (12 :> Report(12, <<PlayerInjury("Role Player", "Day-To-Day"),
                             PlayerInjury("Jayson Tatum", "Questionable")>>))
      @@ (UnseenId :> BadAnswer) }

FeatureCall(home_id, away_id, game_date, ml_home, ml_away) ==
  [home_id |-> home_id, away_id |-> away_id, game_date |-> game_date,
   ml_home |-> ml_home, ml_away |-> ml_away]

(* The calls of build_features: teams with and without history, an unseen id on one *)
(* side and on both, the date as a date and as a string, with and without moneylines. *)
FeatureCalls ==
  { FeatureCall(3, 12, <<"date", 1>>, <<>>, <<>>),
    FeatureCall(3, 12, <<"str", isoformat(2)>>, <<-150>>, <<130>>),
    FeatureCall(12, 3, <<"date", 2>>, <<120>>, <<>>),
    FeatureCall(3, UnseenId, <<"str", isoformat(1)>>, <<>>, <<>>),
    FeatureCall(UnseenId, UnseenId, <<"date", 1>>, <<-110>>, <<-110>>) }

(* The reports calculate_injury_adjustment is called with directly. *)
AdjustmentReports ==
  { TeamInjuryReport(3, TeamName(3), <<>>),
    TeamInjuryReport(3, TeamName(3), <<PlayerInjury("Role Player", "Day-To-Day")>>),
    TeamInjuryReport(3, TeamName(3), <<PlayerInjury("Role Player", "Probable")>>),
    TeamInjuryReport(3, TeamName(3), <<PlayerInjury("Nikola Jokic", "Doubtful"),
                                       PlayerInjury("Role Player", "Q")>>),
    TeamInjuryReport(3, TeamName(3), <<PlayerInjury("Nikola Jokic", "Out"),
                                       PlayerInjury("Jayson Tatum", "Out"),
                                       PlayerInjury("Role Player", "Out")>>) }

InitFeatures ==
  /\ InitNoGlobals
  /\ ratings = EloInit(StoreInitRatings)
  /\ team_games = StatsInit(StoreInitGames)
  /\ processed_games = {}
  /\ delivered = {}
  /\ inserted = StoreInitGames
  /\ InitNoFiles
  /\ clock = StartClock
  /\ persist \in BOOLEAN
  /\ _cache \in { <<>>, << <<3, FreshEntry(3)>>, <<12, OldEntry(12)>> >> }
  /\ cache_file = IF persist
                  THEN _save_to_disk(_cache, INJURY_CACHE_TTL, StartClock - ClockStep, TRUE)
                  ELSE Absent
  /\ lock = NoThread
  /\ threads = <<>>
  /\ config \in Configs
  /\ last = [op |-> "__init__", arg |-> None, ret |-> None, prev |-> "init"]
  /\ nops = 0

(* FeatureBuilder.build_features(home_id, away_id, game_date, ml_home, ml_away) *)
BuildFeatures(B) ==
  /\ Step(B)
  /\ \E g \in FeatureCalls, answers \in FetchScenarios :
       \E out \in {build_features(config, ratings, team_games, _cache, clock, g.home_id,
                                  g.away_id, g.game_date, g.ml_home, g.ml_away, answers)} :
         /\ team_games' = out.team_games
         /\ _cache' = out.cache
         /\ cache_file' = IF out.stored /\ persist
                          THEN _save_to_disk(_cache', INJURY_CACHE_TTL, clock, TRUE)
                          ELSE cache_file
         /\ last' = Call("build_features", [call |-> g, answers |-> answers],
                         [raised |-> out.raised, features |-> out.features,
                          named |-> out.named, adj |-> out.adj])
  /\ UNCHANGED <<ratings, processed_games, files, delivered, inserted, save_log,
                 clock, persist, lock, threads, config, gvars>>

(* calculate_injury_adjustment(report, use_player_importance) *)
CalculateInjuryAdjustment(B) ==
  \E report \in AdjustmentReports, use_player_importance \in BOOLEAN :
    /\ Step(B)
    /\ last' = Call("calculate_injury_adjustment",
                    [report |-> report, use_player_importance |-> use_player_importance],
                    calculate_injury_adjustment(report, use_player_importance,
                                                config.INJURY_ADJUSTMENTS_ENABLED))
    /\ UNCHANGED <<evars, cvars>>

NextFeatures ==
  \/ Advance
  \/ BuildFeatures(MaxFeatureOps)
  \/ CalculateInjuryAdjustment(MaxFeatureOps)

SpecFeatures == InitFeatures /\ [][NextFeatures]_vars

---------------------------------------------------------------------------
(* A FeatureBuilder prefetching the league-wide report *)

MaxPrefetchOps == 2

(* What the request of get_all_injuries does. *)
PrefetchAnswers ==
  { [kind |-> "request_error", reports |-> <<>>],
    [kind |-> "bad_answer", reports |-> <<>>],
    [kind |-> "reports", reports |-> <<>>],
    [kind |-> "reports",
     reports |-> << <<3, TeamInjuryReport(3, TeamName(3), <<PlayerInjury("Nikola Jokic", "Out")>>)>>,
                    <<12, TeamInjuryReport(12, TeamName(12), <<>>)>> >>] }

PrefetchAllInjuries(B) ==
  /\ Step(B)
  /\ \E answer \in PrefetchAnswers, log \in BOOLEAN :
       \E out \in {prefetch_all_injuries(config, log, _cache, clock, answer)} :
         /\ _cache' = out.cache
         /\ cache_file' = IF out.sets > 0 /\ persist
                          THEN _save_to_disk(_cache', INJURY_CACHE_TTL, clock, TRUE)
                          ELSE cache_file
         /\ last' = Call("prefetch_all_injuries",
                         [answer |-> answer, LOG_INJURY_ADJUSTMENTS |-> log],
                         [ret |-> out.ret, sets |-> out.sets])
  /\ UNCHANGED <<evars, clock, persist, lock, threads, config, gvars>>

NextPrefetch ==
  \/ Advance
  \/ PrefetchAllInjuries(MaxPrefetchOps)

SpecPrefetch == InitFeatures /\ [][NextPrefetch]_vars

---------------------------------------------------------------------------
(* A ConfidenceScorer over a StatsTracker. *)

MaxScoreOps == 1

(* Histories: team 3 volatile (margins 20, -15, 25), team 5 in between (0, 16), *)
(* team 9 with one game, team 12 steady; UnseenId has none.                      *)
ScoreInitGames ==
  (3 :> << GameRecord(130, 110, TRUE, isoformat(0)), GameRecord(95, 110, FALSE, isoformat(1)),
           GameRecord(135, 110, TRUE, isoformat(2)) >>)
    @@ (5 :> << GameRecord(100, 100, FALSE, isoformat(0)),
                GameRecord(116, 100, TRUE, isoformat(1)) >>)
    @@ (9 :> << GameRecord(101, 99, TRUE, isoformat(0)) >>)
    @@ (12 :> << GameRecord(110, 100, TRUE, isoformat(0)),
                 GameRecord(111, 101, TRUE, isoformat(1)) >>)

(* A vector in FEATURE_COLS order with the values the scorer reads set as given. *)
MakeVector(market_prob_home, elo_prob, win_roll_diff, margin_roll_diff, rest_diff, home_b2b, away_b2b) ==
  [i \in 1 .. Len(FEATURE_COLS) |->
     CASE FEATURE_COLS[i] = "market_prob_home" -> market_prob_home
       [] FEATURE_COLS[i] = "market_prob_away" -> 1000 - market_prob_home
       [] FEATURE_COLS[i] = "elo_prob" -> elo_prob
       [] FEATURE_COLS[i] = "win_roll_diff" -> win_roll_diff
       [] FEATURE_COLS[i] = "margin_roll_diff" -> margin_roll_diff
       [] FEATURE_COLS[i] = "rest_diff" -> rest_diff
       [] FEATURE_COLS[i] = "home_b2b" -> home_b2b
       [] FEATURE_COLS[i] = "away_b2b" -> away_b2b
       [] OTHER -> 0]

(* The signals of the vector: for the home team, for the away team, neutral. *)
SignalCases == { <<600, 200, 5000>>, <<400, -200, -5000>>, <<500, 0, 0>> }

(* rest_diff, home_b2b, away_b2b *)
RestCases == { <<0, 0, 0>>, <<3, 0, 0>>, <<-1, 1, 1>> }

(* Full vectors, the 25 values of an older caller, and no values at all. *)
ScoreVectors ==
  { MakeVector(m, sg[1], sg[2], sg[3], rc[1], rc[2], rc[3]) :
      m \in {500, 530, 900}, sg \in SignalCases, rc \in RestCases }
    \cup { SubSeq(MakeVector(900, 600, 200, 5000, 3, 0, 0), 1, 25), <<>> }

ScoreProbs == {0, 480, 520, 600, 1000}

ScorePairs == { <<3, 3>>, <<5, 5>>, <<UnseenId, UnseenId>>, <<9, 12>> }

InitScore ==
  /\ ratings = EmptyDict
  /\ team_games = StatsInit(ScoreInitGames)
  /\ processed_games = {}
  /\ delivered = {}
  /\ inserted = ScoreInitGames
  /\ InitNoFiles
  /\ InitNoCache
  /\ last = [op |-> "__init__", arg |-> None, ret |-> None, prev |-> "init"]
  /\ nops = 0

(* ConfidenceScorer.calculate_confidence_score(prob_home, features, home_id, away_id) *)
CalculateConfidenceScore(B) ==
  /\ Step(B)
  /\ \E prob_home \in ScoreProbs, features \in ScoreVectors, pair \in ScorePairs :
       last' = Call("calculate_confidence_score",
                    [prob_home |-> prob_home, features |-> features,
                     home_id |-> pair[1], away_id |-> pair[2]],
                    calculate_confidence_score(team_games, prob_home, features,
                                               pair[1], pair[2]))
  /\ UNCHANGED <<evars, cvars>>

NextScore == CalculateConfidenceScore(MaxScoreOps)

SpecScore == InitScore /\ [][NextScore]_vars

---------------------------------------------------------------------------
(* One InjuryCache used from concurrent threads. Each method body runs inside       *)
(* `with self._lock`; a thread advances one statement at a time, so the statements  *)
(* of two threads interleave wherever the lock allows it.                           *)

MaxCalls == 2

Tids == {1, 2}

LockGateMutOpen(owner, t) == TRUE

(* threading.RLock.acquire: free, or already held by the caller. *)
LockGate(owner, t) == owner = NoThread \/ owner = t

IdleThread ==
  [pc |-> "idle", op |-> "none", arg |-> [team |-> <<>>, allow_stale |-> FALSE],
   snap |-> <<>>, t_read |-> 0, entry |-> <<>>, ids |-> <<>>, n |-> 0,
   ret |-> <<>>, raised |-> FALSE, after |-> <<>>]

ThreadCalls ==
  {[op |-> "get", arg |-> [team |-> <<t>>, allow_stale |-> st]] : t \in TeamIds, st \in BOOLEAN}
    \cup {[op |-> "set", arg |-> [team |-> <<t>>, allow_stale |-> FALSE]] : t \in TeamIds}
    \cup {[op |-> "clear", arg |-> [team |-> tm, allow_stale |-> FALSE]] : tm \in {<<>>, <<3>>}}
    \cup {[op |-> o, arg |-> [team |-> <<>>, allow_stale |-> FALSE]] :
            o \in {"clear_expired", "get_stats", "__len__"}}

(* A cache in use for a while: team 12 was set at time 0 and team 3 one clock step ago. *)
InitThreads ==
  /\ InitNoGlobals
  /\ InitMemEmpty
  /\ InitNoFiles
  /\ clock = StartClock
  /\ persist \in BOOLEAN
  /\ _cache = << <<12, OldEntry(12)>>, <<3, FreshEntry(3)>> >>
  /\ cache_file = IF persist
                  THEN _save_to_disk(_cache, INJURY_CACHE_TTL, StartClock - ClockStep, TRUE)
                  ELSE Absent
  /\ lock = NoThread
  /\ threads = [t \in Tids |-> IdleThread]
  /\ config = DefaultConfig
  /\ last = [op |-> "__init__", arg |-> None, ret |-> None, prev |-> "init"]
  /\ nops = 0

At(t, pc, op) == threads[t].pc = pc /\ threads[t].op = op

(* The step of thread t named op, which leaves the thread as th. *)
ThreadStep(t, op, th) ==
  /\ threads' = [threads EXCEPT ![t] = th]
  /\ UNCHANGED last

(* A thread calls a method of the cache. *)
Begin(B) ==
  \E t \in Tids, c \in ThreadCalls :
    /\ threads[t].pc = "idle"
    /\ Step(B)
    /\ ThreadStep(t, "call", [IdleThread EXCEPT !.pc = "acquire", !.op = c.op, !.arg = c.arg])
    /\ UNCHANGED <<evars, _cache, clock, cache_file, persist, lock, config, gvars>>

(* with self._lock: *)
Acquire ==
  \E t \in Tids :
    /\ threads[t].pc = "acquire"
    /\ LockGate(lock, t)
    /\ lock' = t
    /\ ThreadStep(t, "acquire", [threads[t] EXCEPT !.pc = "body", !.snap = _cache])
    /\ UNCHANGED <<nops, evars, _cache, clock, cache_file, persist, config, gvars>>

(* get: if team_id not in self._cache: return None; entry = self._cache[team_id] *)
GetLookup ==
  \E t \in Tids :
    LET id == threads[t].arg.team[1] IN
    /\ At(t, "body", "get")
    /\ ThreadStep(t, "get.lookup",
                  IF DictHas(_cache, id)
                  THEN [threads[t] EXCEPT !.pc = "check", !.entry = <<DictGet(_cache, id)>>]
                  ELSE [threads[t] EXCEPT !.pc = "release", !.ret = NoEntry, !.t_read = clock])
    /\ UNCHANGED <<nops, evars, _cache, clock, cache_file, persist, lock, config, gvars>>

(* get: the is_expired test and the return *)
GetCheck ==
  \E t \in Tids :
    LET entry == threads[t].entry[1] IN
    /\ At(t, "check", "get")
    /\ ThreadStep(t, "get.check",
                  [threads[t] EXCEPT
                     !.pc = "release", !.t_read = clock,
                     !.ret = IF ~is_expired(entry, INJURY_CACHE_TTL, clock) THEN <<entry>>
                             ELSE IF threads[t].arg.allow_stale THEN <<entry>>
                             ELSE NoEntry])
    /\ UNCHANGED <<nops, evars, _cache, clock, cache_file, persist, lock, config, gvars>>

AfterWrite(wrote) == IF wrote /\ persist THEN "save" ELSE "release"

(* set: entry = CachedInjuryData(...); self._cache[team_id] = entry *)
SetStore ==
  \E t \in Tids, pl \in {CHOOSE x \in SetPayloads : x.adjustment # 0} :
    LET id == threads[t].arg.team[1] IN
    /\ At(t, "body", "set")
    /\ _cache' = CacheSet(_cache, clock, id, TeamName(id), pl.adjustment, pl.severity,
                          pl.injuries_count, pl.injuries_summary)
    /\ ThreadStep(t, "set.store",
                  [threads[t] EXCEPT !.pc = AfterWrite(TRUE), !.t_read = clock])
    /\ UNCHANGED <<nops, evars, clock, cache_file, persist, lock, config, gvars>>

(* clear: pop(team_id, None) or clear() *)
ClearBody ==
  \E t \in Tids :
    /\ At(t, "body", "clear")
    /\ _cache' = CacheClear(_cache, threads[t].arg.team)
    /\ ThreadStep(t, "clear.body",
                  [threads[t] EXCEPT !.pc = AfterWrite(TRUE), !.t_read = clock])
    /\ UNCHANGED <<nops, evars, clock, cache_file, persist, lock, config, gvars>>

(* clear_expired: expired_ids = [...] *)
ExpiredScan ==
  \E t \in Tids :
    LET ids == ExpiredIds(_cache, INJURY_CACHE_TTL, clock) IN
    /\ At(t, "body", "clear_expired")
    /\ ThreadStep(t, "clear_expired.scan",
                  [threads[t] EXCEPT !.pc = "del", !.t_read = clock, !.ids = ids,
                                     !.n = Len(ids), !.ret = Len(ids)])
    /\ UNCHANGED <<nops, evars, _cache, clock, cache_file, persist, lock, config, gvars>>

(* clear_expired: for tid in expired_ids: del self._cache[tid]  (KeyError if absent) *)
ExpiredDelete ==
  \E t \in Tids :
    LET ids == threads[t].ids IN
    /\ At(t, "del", "clear_expired")
    /\ IF ids = <<>>
       THEN /\ ThreadStep(t, "clear_expired.done",
                          [threads[t] EXCEPT !.pc = AfterWrite(threads[t].n > 0)])
            /\ UNCHANGED _cache
       ELSE IF DictHas(_cache, Head(ids))
       THEN /\ _cache' = DictPop(_cache, Head(ids))
            /\ ThreadStep(t, "clear_expired.del", [threads[t] EXCEPT !.ids = Tail(ids)])
       ELSE /\ ThreadStep(t, "clear_expired.raise",
                          [threads[t] EXCEPT !.pc = "release", !.raised = TRUE])
            /\ UNCHANGED _cache
    /\ UNCHANGED <<nops, evars, clock, cache_file, persist, lock, config, gvars>>

(* get_stats *)
StatsBody ==
  \E t \in Tids :
    /\ At(t, "body", "get_stats")
    /\ ThreadStep(t, "get_stats.body",
                  [threads[t] EXCEPT !.pc = "release", !.t_read = clock,
                                     !.ret = CacheGetStats(_cache, INJURY_CACHE_TTL, clock)])
    /\ UNCHANGED <<nops, evars, _cache, clock, cache_file, persist, lock, config, gvars>>

(* __len__ *)
LenBody ==
  \E t \in Tids :
    /\ At(t, "body", "__len__")
    /\ ThreadStep(t, "__len__.body",
                  [threads[t] EXCEPT !.pc = "release", !.t_read = clock, !.ret = Len(_cache)])
    /\ UNCHANGED <<nops, evars, _cache, clock, cache_file, persist, lock, config, gvars>>

(* if self.persist: self._save_to_disk() *)
SaveStep ==
  \E t \in Tids :
    /\ threads[t].pc = "save"
    /\ cache_file' = _save_to_disk(_cache, INJURY_CACHE_TTL, clock, TRUE)
    /\ ThreadStep(t, "save", [threads[t] EXCEPT !.pc = "release"])
    /\ UNCHANGED <<nops, evars, _cache, clock, persist, lock, config, gvars>>

(* The end of the with block, by return or by exception. *)
Release ==
  \E t \in Tids :
    /\ threads[t].pc = "release"
    /\ lock' = NoThread
    /\ ThreadStep(t, "release", [threads[t] EXCEPT !.pc = "idle", !.after = _cache])
    /\ UNCHANGED <<nops, evars, _cache, clock, cache_file, persist, config, gvars>>

NextThreads ==
  \/ Advance
  \/ Begin(MaxCalls)
  \/ Acquire
  \/ GetLookup
  \/ GetCheck
  \/ SetStore
  \/ ClearBody
  \/ ExpiredScan
  \/ ExpiredDelete
  \/ StatsBody
  \/ LenBody
  \/ SaveStep
  \/ Release

SpecThreads == InitThreads /\ [][NextThreads]_vars

---------------------------------------------------------------------------
(* get_global_cache called from several threads.  The function holds no lock, so a *)
(* thread may be suspended between any two of its statements: the test of          *)
(* _global_cache, the construction of an InjuryCache, the assignment to            *)
(* _global_cache, and the return of what _global_cache then names.                 *)

MaxGlobalOps == 4

GlobalCallers == {1, 2, 3}

(* The InjuryCache objects are numbered in the order of their construction. *)
InitGlobal ==
  /\ InitMemEmpty
  /\ InitNoFiles
  /\ backfill = NoBackfill
  /\ _global_cache = NoInstance
  /\ instances = <<>>
  /\ callers = [t \in GlobalCallers |-> [pc |-> "test", made |-> NoInstance, ret |-> NoInstance]]
  /\ _cache = <<>>
  /\ clock = StartClock
  /\ cache_file = Absent
  /\ persist = FALSE
  /\ lock = NoThread
  /\ threads = <<>>
  /\ config = DefaultConfig
  /\ last = [op |-> "init", arg |-> None, ret |-> None, prev |-> "init"]
  /\ nops = 0

GlobalFrame ==
  UNCHANGED <<evars, _cache, clock, cache_file, persist, lock, threads, config, backfill>>

(* "if _global_cache is None:" *)
GlobalTest(t) ==
  /\ callers[t].pc = "test"
  /\ callers' = [callers EXCEPT ![t].pc = IF _global_cache = NoInstance THEN "construct"
                                          ELSE "return"]
  /\ UNCHANGED <<nops, last, _global_cache, instances>>
  /\ GlobalFrame

(* "InjuryCache()": a new object, with the entries its constructor loads *)
GlobalConstruct(t) ==
  /\ callers[t].pc = "construct"
  /\ instances' = Append(instances, InjuryCacheInit(persist, cache_file, INJURY_CACHE_TTL, clock))
  /\ callers' = [callers EXCEPT ![t].pc = "assign", ![t].made = Len(instances')]
  /\ UNCHANGED <<nops, last, _global_cache>>
  /\ GlobalFrame

(* "_global_cache = ..." *)
GlobalAssign(t) ==
  /\ callers[t].pc = "assign"
  /\ _global_cache' = callers[t].made
  /\ callers' = [callers EXCEPT ![t].pc = "return"]
  /\ UNCHANGED <<nops, last, instances>>
  /\ GlobalFrame

(* "return _global_cache" *)
GlobalReturn(t, B) ==
  /\ callers[t].pc = "return"
  /\ Step(B)
  /\ callers' = [callers EXCEPT ![t].pc = "done", ![t].ret = _global_cache]
  /\ last' = Call("get_global_cache", t, _global_cache)
  /\ UNCHANGED <<_global_cache, instances>>
  /\ GlobalFrame

(* A caller sets an entry through the instance it was given. *)
GlobalSet(t, B) ==
  \E team_id \in TeamIds :
    /\ callers[t].pc = "done"
    /\ Step(B)
    /\ instances' = [instances EXCEPT ![callers[t].ret] =
                       CacheSet(@, clock, team_id, TeamName(team_id), 0, 0, 0, <<>>)]
    /\ last' = Call("set", [thread |-> t, team_id |-> team_id], None)
    /\ UNCHANGED <<_global_cache, callers>>
    /\ GlobalFrame

NextGlobal ==
  \E t \in GlobalCallers :
    \/ GlobalTest(t)
    \/ GlobalConstruct(t)
    \/ GlobalAssign(t)
    \/ GlobalReturn(t, MaxGlobalOps)
    \/ GlobalSet(t, MaxGlobalOps)

SpecGlobal == InitGlobal /\ [][NextGlobal]_vars

---------------------------------------------------------------------------
(* The processor previewing and applying results, and the rest-days read *)

(* Scores of a home win, an away win and equal scores (a competitor without a *)
(* readable score counts 0).                                                  *)
PreviewScores == {<<101, 99>>, <<95, 110>>, <<0, 0>>}

PreviewResults ==
  {GameResult(isoformat(1), p[1], p[2], sc, "Final") : p \in {<<3, 12>>, <<3, 3>>}, sc \in PreviewScores}
  \cup { GameResult(isoformat(1), 3, 12, <<55, 50>>, "In Progress"),
         GameResult(isoformat(1), NoId, 12, <<101, 99>>, "Final") }

(* game_date arguments of get_rest_days: before, on and after the last game, *)
(* and across the cap.                                                        *)
RestDates ==
  { <<"date", 0>>, <<"date", 1>>, <<"str", isoformat(2)>>,
    <<"date", 14>>, <<"str", isoformat(15)>>, <<"date", 16>> }

InitPreview ==
  /\ ratings = EloInit(StoreInitRatings)
  /\ team_games = StatsInit(StoreInitGames)
  /\ processed_games = {}
  /\ delivered = {}
  /\ inserted = StoreInitGames
  /\ InitNoFiles
  /\ InitNoCache
  /\ last = [op |-> "init", arg |-> None, ret |-> None, prev |-> "init"]
  /\ nops = 0

PreviewGame(B) ==
  \E result \in PreviewResults :
    /\ Tick(B)
    /\ last' = Call("preview_game", [result |-> result], preview_game(ratings, result))
    /\ UNCHANGED <<ratings, team_games, processed_games, delivered, inserted, files, save_log>>

GetRestDays(B) ==
  \E team_id \in TeamIds, game_date \in RestDates :
    /\ Tick(B)
    /\ team_games' = EnsureDeque(team_games, team_id)
    /\ last' = Call("get_rest_days", [team_id |-> team_id, game_date |-> game_date],
                    get_rest_days(team_games'[team_id], game_date))
    /\ UNCHANGED <<ratings, processed_games, delivered, inserted, files, save_log>>

NextPreview ==
  \/ ProcessGameIn(PreviewResults, BOOLEAN, MaxPreviewOps)
  \/ PreviewGame(MaxPreviewOps)
  \/ GetRestDays(MaxPreviewOps)

SpecPreview == InitPreview /\ [][NextPreview]_vars

---------------------------------------------------------------------------
(* backfill_state.main(): its set-up, each pass of its loop over the dates, its end *)

Month(day) == isoformat(day)[2]
Year(day) == isoformat(day)[1]

(* backfill_state.is_new_season; previous_date is never None in main() *)
is_new_season(current_date, previous_date) ==
  LET curr_month == Month(current_date)
      prev_month == Month(previous_date) IN
  IF curr_month >= NBA_SEASON_START_MONTH /\ prev_month < NBA_SEASON_START_MONTH THEN TRUE
  ELSE IF Year(current_date) > Year(previous_date) /\ curr_month >= NBA_SEASON_START_MONTH
  THEN prev_month < NBA_SEASON_START_MONTH
  ELSE FALSE

(* "for game in completed_games: if processor.process_game(game): processed += 1" *)
RECURSIVE BackfillGames(_, _)
BackfillGames(acc, games) ==
  IF games = <<>> THEN acc
  ELSE
    LET game == Head(games)
        out == process_game(acc.mem, game, FALSE)
    IN BackfillGames([mem |-> out.mem,
                      count |-> acc.count + (IF out.ret THEN 1 ELSE 0),
                      dlv |-> IF is_final(game) /\ IdsResolved(game)
                              THEN acc.dlv \cup {Triple(game)} ELSE acc.dlv,
                      ins |-> InsertedAfter(acc.ins, game, out.ret)],
                     Tail(games))

(* One pass of "while current_date <= end_date": the season test, the fetch, the  *)
(* games of the date, the checkpoint save and the step to the next date.  fetched *)
(* is what get_completed_games gave ([ok |-> FALSE] when it raised).              *)
backfill_day(d, m, bf, fetched, dlv, ins, now) ==
  LET current_date == bf.current_date
      regress == is_new_season(current_date, bf.previous_date) /\ ~bf.dry_run
      m1 == IF regress THEN [m EXCEPT !.ratings = SeasonRegression(m.ratings)] ELSE m
      bf1 == IF regress THEN [bf EXCEPT !.regressed = Append(bf.regressed, current_date)] ELSE bf
      same == [dir |-> d, mem |-> m1, dlv |-> dlv, ins |-> ins, saved |-> FALSE]
  IN
  IF ~fetched.ok
  THEN [same EXCEPT !.dir = d] @@ [bf |-> [bf1 EXCEPT !.current_date = current_date + 1]]
  ELSE
    LET next == [bf1 EXCEPT !.previous_date = current_date, !.current_date = current_date + 1] IN
    IF fetched.games = <<>> \/ bf.dry_run THEN same @@ [bf |-> next]
    ELSE
      LET acc == BackfillGames([mem |-> m1, count |-> 0, dlv |-> dlv, ins |-> ins], fetched.games)
          since == bf.games_since_checkpoint + acc.count
          checkpoint == since >= bf.checkpoint_interval
      IN [dir |-> IF checkpoint
                  THEN save(d, acc.mem.ratings, acc.mem.team_games, TRUE, now) ELSE d,
          mem |-> acc.mem, dlv |-> acc.dlv, ins |-> acc.ins, saved |-> checkpoint,
          bf |-> [next EXCEPT !.total_games_processed = bf.total_games_processed + acc.count,
                              !.games_since_checkpoint = IF checkpoint THEN 0 ELSE since]]

(* The dates around the start of the 2026-27 season: 30 September 2026 and 1 October 2026. *)
BackfillStarts == {fromisoformat(<<2026, 9, 30>>), fromisoformat(<<2026, 10, 1>>)}

(* What get_completed_games(current_date) may give: no game, one final game, or an *)
(* exception.                                                                       *)
BackfillFetches(day) ==
  { [ok |-> FALSE, games |-> <<>>],
    [ok |-> TRUE, games |-> <<>>],
    [ok |-> TRUE, games |-> <<GameResult(isoformat(day), 3, 12, <<101, 99>>, "Final")>>] }

(* main() up to its loop: the state is loaded, the range of dates is fixed and a *)
(* processor is built around the loaded trackers.                                *)
BackfillStart(B) ==
  \E start_date \in BackfillStarts, dry_run \in BOOLEAN, checkpoint_interval \in {1, 50} :
    LET end_date == start_date + BackfillDays - 1 IN
    /\ backfill.phase = "idle"
    /\ exists(CurDir)
    /\ start_date <= end_date
    /\ Step(B)
    /\ SetMem(Mem(load(CurDir).ratings, load(CurDir).team_games, {}))
    /\ delivered' = {}
    /\ inserted' = load(CurDir).team_games
    /\ backfill' = [phase |-> "loop", start_date |-> start_date, end_date |-> end_date,
                    dry_run |-> dry_run, checkpoint_interval |-> checkpoint_interval,
                    current_date |-> start_date, previous_date |-> start_date - 1,
                    total_games_processed |-> 0, games_since_checkpoint |-> 0,
                    regressed |-> <<>>, failed |-> {}]
    /\ last' = Call("backfill_start", [start_date |-> start_date, dry_run |-> dry_run], None)
    /\ UNCHANGED <<files, save_log, _cache, clock, cache_file, persist, lock, threads, config,
                   _global_cache, instances, callers>>

BackfillDay(B) ==
  /\ backfill.phase = "loop"
  /\ backfill.current_date <= backfill.end_date
  /\ Step(B)
  /\ \E fetched \in BackfillFetches(backfill.current_date) :
       \E out \in {backfill_day(CurDir, CurMem, backfill, fetched, delivered, inserted, nops + 1)} :
         /\ SetDir(out.dir)
         /\ SetMem(out.mem)
         /\ delivered' = out.dlv
         /\ inserted' = out.ins
         /\ save_log' = IF out.saved
                        THEN SaveLogAfter(save_log, CurDir,
                                          Snapshot(out.mem.ratings, out.mem.team_games), TRUE, 5)
                        ELSE save_log
         /\ backfill' = IF fetched.ok THEN out.bf
                        ELSE [out.bf EXCEPT !.failed = @ \cup {backfill.current_date}]
         /\ last' = Call("backfill_day", [current_date |-> backfill.current_date,
                                          fetched |-> fetched.ok], out.bf.regressed)
  /\ UNCHANGED <<_cache, clock, cache_file, persist, lock, threads, config,
                 _global_cache, instances, callers>>

(* After the loop: the final save, the last processed date and the total. *)
BackfillFinish(B) ==
  /\ backfill.phase = "loop"
  /\ backfill.current_date > backfill.end_date
  /\ Step(B)
  /\ LET write == ~backfill.dry_run /\ backfill.total_games_processed > 0
         d1 == save(CurDir, ratings, team_games, TRUE, nops + 1)
         d2 == set_last_processed_date(d1, backfill.end_date, nops + 1)
         d3 == increment_games_processed(d2, backfill.total_games_processed)
     IN /\ SetDir(IF write THEN d3 ELSE CurDir)
        /\ save_log' = IF write
                       THEN SaveLogAfter(save_log, CurDir, Snapshot(ratings, team_games), TRUE, 5)
                       ELSE save_log
  /\ backfill' = [backfill EXCEPT !.phase = "done"]
  /\ last' = Call("backfill_finish", None, backfill.regressed)
  /\ UNCHANGED <<ratings, team_games, processed_games, delivered, inserted,
                 _cache, clock, cache_file, persist, lock, threads, config,
                 _global_cache, instances, callers>>

(* KeyboardInterrupt inside the loop. *)
BackfillInterrupt(B) ==
  /\ backfill.phase = "loop"
  /\ backfill.current_date <= backfill.end_date
  /\ Step(B)
  /\ LET d1 == save(CurDir, ratings, team_games, TRUE, nops + 1)
         d2 == set_last_processed_date(d1, backfill.previous_date, nops + 1)
     IN /\ SetDir(IF backfill.dry_run THEN CurDir ELSE d2)
        /\ save_log' = IF backfill.dry_run THEN save_log
                       ELSE SaveLogAfter(save_log, CurDir, Snapshot(ratings, team_games), TRUE, 5)
  /\ backfill' = [backfill EXCEPT !.phase = "done"]
  /\ last' = Call("backfill_interrupt", None, backfill.regressed)
  /\ UNCHANGED <<ratings, team_games, processed_games, delivered, inserted,
                 _cache, clock, cache_file, persist, lock, threads, config,
                 _global_cache, instances, callers>>

NextBackfill ==
  \/ BackfillStart(MaxBackfillOps)
  \/ BackfillDay(MaxBackfillOps)
  \/ BackfillFinish(MaxBackfillOps)
  \/ BackfillInterrupt(MaxBackfillOps)

SpecBackfill == InitBoot /\ [][NextBackfill]_vars

---------------------------------------------------------------------------
(* Vocabulary of the properties *)

TrackersUnchanged ==
  /\ ratings' = ratings
  /\ team_games' = team_games
  /\ processed_games' = processed_games

IsProcessGame(l) == l.op = "process_game"

(* The call l applied EloTracker.update: directly, or through an accepted process_game. *)
AppliesUpdate(l) == l.op = "update" \/ (l.op = "process_game" /\ l.ret = TRUE)
HomeOf(l) == IF l.op = "update" THEN l.arg.home_id ELSE l.arg.result.home_team_id
AwayOf(l) == IF l.op = "update" THEN l.arg.away_id ELSE l.arg.result.away_team_id

(* Sum of the ratings over all entities, unseen ones at their default. *)
TotalRating(r) == SumOver([t \in TeamIds |-> get_elo(r, t)], TeamIds)

ZeroSumStep(l) ==
  /\ get_elo(ratings', HomeOf(l)) - get_elo(ratings, HomeOf(l))
       = -(get_elo(ratings', AwayOf(l)) - get_elo(ratings, AwayOf(l)))
  /\ TotalRating(ratings') = TotalRating(ratings)

---------------------------------------------------------------------------
(* C1: in one session, a finalized result with both ids resolved that was already *)
(* delivered with force=False is skipped when delivered again with force=False:   *)
(* the call returns False and leaves the ratings, the histories and the           *)
(* processed-key set as they were, whatever was processed in between.             *)
C1_RepeatSkipped ==
  [][ (/\ IsProcessGame(last')
       /\ ~last'.arg.force
       /\ is_final(last'.arg.result)
       /\ IdsResolved(last'.arg.result)
       /\ Triple(last'.arg.result) \in delivered)
      => (last'.ret = FALSE /\ TrackersUnchanged) ]_vars

(* A repeated delivery was skipped after a different result had been applied too. *)
C1_Witness ==
  /\ IsProcessGame(last)
  /\ ~last.arg.force
  /\ is_final(last.arg.result)
  /\ IdsResolved(last.arg.result)
  /\ last.ret = FALSE
  /\ Triple(last.arg.result) \in delivered
  /\ Cardinality(processed_games) >= 2

(* C3: process_game returns False and changes no rating, no history and not the *)
(* processed-key set when the result is not final or one of its ids is          *)
(* unresolved, for every prior state and every value of force.                  *)
C3_RejectedUntouched ==
  [][ (/\ IsProcessGame(last')
       /\ (~is_final(last'.arg.result) \/ ~IdsResolved(last'.arg.result)))
      => (last'.ret = FALSE /\ TrackersUnchanged) ]_vars

(* A non-final result was delivered with force=True to a processor that had state. *)
C3_Witness ==
  /\ IsProcessGame(last)
  /\ last.arg.force
  /\ ~is_final(last.arg.result)
  /\ IdsResolved(last.arg.result)
  /\ processed_games # {}
  /\ last.ret = FALSE

(* C4 as stated: every update is zero-sum, also when home_id = away_id. *)
C4_ZeroSumAnyIds ==
  [][ AppliesUpdate(last') => ZeroSumStep(last') ]_vars

(* C4, amended: every update with home_id # away_id is zero-sum: the change of *)
(* the home rating is minus the change of the away rating, and the sum of the  *)
(* ratings over all entities is unchanged.                                     *)
C4_ZeroSumDistinctIds ==
  [][ (AppliesUpdate(last') /\ HomeOf(last') # AwayOf(last')) => ZeroSumStep(last') ]_vars

(* An update between two different entities moved the home rating off its default. *)
C4_Witness ==
  /\ AppliesUpdate(last)
  /\ HomeOf(last) # AwayOf(last)
  /\ get_elo(ratings, HomeOf(last)) # DEFAULT_ELO * Scale
  /\ get_elo(ratings, HomeOf(last)) + get_elo(ratings, AwayOf(last)) = 2 * DEFAULT_ELO * Scale

(* C6: in every reachable state the dates of each entity's history are *)
(* non-decreasing from oldest to newest.                               *)
C6_DatesNonDecreasing ==
  \A t \in DOMAIN team_games :
    \A i \in 1 .. (Len(team_games[t]) - 1) :
      IsoLeq(team_games[t][i].date, team_games[t][i + 1].date)

(* C7: a load that directly follows a complete save returns trackers whose rating *)
(* map and history map equal the saved ones: the same integer ids as keys, the    *)
(* same ratings, the same records in the same order.                              *)
C7_SaveLoadRoundTrip ==
  [][ (last'.op = "load" /\ last.op = "save")
      => (ratings' = ratings /\ team_games' = team_games) ]_vars

(* A load after a save returned a two-digit id, an empty history and a history of *)
(* several records.                                                               *)
C7_Witness ==
  /\ last.op = "load"
  /\ last.prev = "save"
  /\ DOMAIN ratings = {3, 12}
  /\ ratings[3] # DEFAULT_ELO * Scale
  /\ \E t \in DOMAIN team_games : team_games[t] = <<>>
  /\ \E t \in DOMAIN team_games : Len(team_games[t]) >= 2

(* C8: after n >= 2 consecutive complete saves with create_backup=True the .bak   *)
(* pair holds the ratings and history written by save n-1, and a load that        *)
(* directly follows a restore_backup after them returns the trackers of save n-1. *)
C8_BackupHoldsPreviousSave ==
  Len(save_log) >= 2 =>
    LET prev == save_log[Len(save_log) - 1] IN
    /\ elo_bak = FileOf(EloSave(prev.ratings))
    /\ stats_bak = FileOf(StatsSave(prev.team_games))
    /\ (last.op = "load" /\ last.prev = "restore_backup")
         => (ratings = prev.ratings /\ team_games = prev.team_games)

(* save(S1), save(S2) with S1 # S2, restore_backup(), load() was performed. *)
C8_Witness ==
  /\ Len(save_log) >= 2
  /\ save_log[Len(save_log) - 1] # save_log[Len(save_log)]
  /\ last.op = "load"
  /\ last.prev = "restore_backup"
  /\ ratings = save_log[Len(save_log) - 1].ratings

RestoreEffect ==
  /\ last'.ret = FALSE => UNCHANGED files
  /\ last'.ret = TRUE => (elo_file' = elo_bak' /\ stats_file' = stats_bak')

C5_WindowIsLastInserted ==
  \A t \in DOMAIN team_games :
    /\ Len(team_games[t]) <= WINDOW_SIZE
    /\ team_games[t] = LastN(IF t \in DOMAIN inserted THEN inserted[t] ELSE <<>>, WINDOW_SIZE)

(* A record was appended to a full history: the oldest one is gone. *)
C5_Witness ==
  /\ last.op \in {"record_game", "process_game"}
  /\ \E t \in DOMAIN team_games :
       /\ Len(inserted[t]) > WINDOW_SIZE + 1
       /\ Len(team_games[t]) = WINDOW_SIZE
       /\ team_games[t][1] = inserted[t][Len(inserted[t]) - WINDOW_SIZE + 1]
       /\ team_games[t][WINDOW_SIZE] = inserted[t][Len(inserted[t])]

(* Number of records of fixture g in the home side's persisted history. *)
AppliedCount(doc, g) ==
  LET key == str(g.home_team_id)
      rec == GameRecord(g.home_score, g.away_score, g.home_score > g.away_score, g.game_date)
  IN IF key \in DOMAIN doc
     THEN Cardinality({i \in 1 .. Len(doc[key]) : doc[key][i] = rec})
     ELSE 0

(* C2: across runs of the driver without --force, stopped runs included, each *)
(* finalized game is applied to the persisted histories at most once.         *)
C2_AppliedAtMostOnce ==
  Exists(stats_file) =>
    \A g \in {f \in AllFixtures : IdsResolved(f)} : AppliedCount(Content(stats_file), g) <= 1

LastProcessedOf(md) == get_last_processed_date([metadata |-> md])
TotalOf(md) == _load_metadata([metadata |-> md]).games_processed_total

(* C10: last_processed_date never moves to an earlier date, games_processed_total *)
(* never decreases, and save and restore_backup leave both as they were.          *)
C10_MetadataMonotone ==
  [][ /\ LastProcessedOf(metadata) # <<>>
         => /\ LastProcessedOf(metadata') # <<>>
            /\ LastProcessedOf(metadata')[1] >= LastProcessedOf(metadata)[1]
      /\ TotalOf(metadata') >= TotalOf(metadata)
      /\ last'.op \in {"save", "save_interrupted", "restore_backup"}
         => /\ LastProcessedOf(metadata') = LastProcessedOf(metadata)
            /\ TotalOf(metadata') = TotalOf(metadata) ]_vars

---------------------------------------------------------------------------
(* InjuryCache: reads, snapshot loading and snapshot writing *)

(* C11: InjuryCache.get(id, allow_stale) returns None when nothing is stored for id,    *)
(* the stored entry when its age is at most the TTL, and for an older entry the entry  *)
(* if allow_stale and None otherwise; get leaves the cache as it was, and a stored     *)
(* entry is removed or replaced only by set, clear or clear_expired (or by the         *)
(* construction of a new cache).                                                       *)
C11_GetReadsOnly ==
  [][ /\ (last'.op = "get" /\ nops' # nops) =>
           LET id == last'.arg.team_id
               ret == last'.ret IN
           /\ _cache' = _cache
           /\ ~DictHas(_cache, id) => ret = <<>>
           /\ DictHas(_cache, id) =>
                LET entry == DictGet(_cache, id)
                    age == clock - DtFromisoformat(entry.cached_at) IN
                /\ age <= INJURY_CACHE_TTL => ret = <<entry>>
                /\ age > INJURY_CACHE_TTL =>
                     ret = (IF last'.arg.allow_stale THEN <<entry>> ELSE <<>>)
      /\ \A id \in DictKeys(_cache) :
           (~DictHas(_cache', id) \/ DictGet(_cache', id) # DictGet(_cache, id))
             => last'.op \in {"set", "clear", "clear_expired", "__init__"} ]_vars

(* A get with allow_stale has returned an entry older than the TTL, which is still stored. *)
C11_Witness ==
  /\ last.op = "get"
  /\ last.arg.allow_stale
  /\ last.ret # <<>>
  /\ age_seconds(last.ret[1], clock) > INJURY_CACHE_TTL
  /\ DictHas(_cache, last.arg.team_id)
  /\ DictGet(_cache, last.arg.team_id) = last.ret[1]

(* The snapshot could not be read to its end: the file is not JSON, or one of its *)
(* entries does not load.                                                          *)
ReadFails(file) ==
  /\ Exists(file)
  /\ \/ Content(file).kind # "json"
     \/ \E i \in 1 .. Len(Content(file).entries) : ~EntryLoads(Content(file).entries[i])

(* C13: with persistence enabled, a cache constructed over a snapshot whose reading *)
(* fails at any point (not JSON, or a malformed entry anywhere) is empty.            *)
C13_FailedLoadGivesEmpty ==
  (last.op = "__init__" /\ persist /\ ReadFails(cache_file)) => _cache = <<>>

(* The entries of the snapshot file and of the memory, as sets of (key, entry). *)
FileEntries(file) ==
  IF Exists(file) /\ Content(file).kind = "json" THEN SeqRange(Content(file).entries) ELSE {}

MemEntries(c) == {<<str(c[i][1]), c[i][2]>> : i \in 1 .. Len(c)}

(* C14 as stated: with persistence enabled and the writes succeeding, after each set, *)
(* clear or clear_expired the entries of the snapshot file are exactly those held in   *)
(* memory.                                                                             *)
C14_SnapshotMatchesAfterMutation ==
  (persist /\ last.op \in {"set", "clear", "clear_expired"} /\ last.arg.write_ok)
    => FileEntries(cache_file) = MemEntries(_cache)

(* C14, amended: with persistence enabled and the write succeeding, after each set or *)
(* clear, and after each clear_expired that removed at least one entry, the entries   *)
(* of the snapshot file are exactly those held in memory.                             *)
C14_SnapshotMatchesAfterWrite ==
  (/\ persist
   /\ last.op \in {"set", "clear", "clear_expired"}
   /\ last.arg.write_ok
   /\ last.op = "clear_expired" => last.ret > 0)
    => FileEntries(cache_file) = MemEntries(_cache)

(* A set has rewritten the snapshot of a cache that holds an expired entry beside the  *)
(* new one.                                                                            *)
C14_Witness ==
  /\ persist
  /\ last.op = "set"
  /\ last.arg.write_ok
  /\ Len(_cache) = 2
  /\ \E i \in 1 .. 2 : is_expired(_cache[i][2], INJURY_CACHE_TTL, clock)
  /\ FileEntries(cache_file) = MemEntries(_cache)

---------------------------------------------------------------------------
(* InjuryCache under concurrent callers *)

InCritical(th) == th.pc \in {"body", "check", "del", "save", "release"}

Completed(th) == th.pc = "idle" /\ th.op # "none"

ThePayload == CHOOSE x \in SetPayloads : x.adjustment # 0

(* The completed call th had the outcome of the whole method run alone on the cache *)
(* it found when it took the lock (th.snap), reading the clock at th.t_read.        *)
AtomicOutcome(th) ==
  LET id == th.arg.team[1] IN
  CASE th.op = "get" ->
         /\ th.after = th.snap
         /\ th.ret = CacheGet(th.snap, INJURY_CACHE_TTL, th.t_read, id, th.arg.allow_stale)
         /\ th.ret # <<>> => (DOMAIN th.ret[1] = EntryFields /\ th.ret[1].team_id = id)
    [] th.op = "set" ->
         th.after = CacheSet(th.snap, th.t_read, id, TeamName(id), ThePayload.adjustment,
                             ThePayload.severity, ThePayload.injuries_count,
                             ThePayload.injuries_summary)
    [] th.op = "clear" -> th.after = CacheClear(th.snap, th.arg.team)
    [] th.op = "clear_expired" ->
         LET out == CacheClearExpired(th.snap, INJURY_CACHE_TTL, th.t_read) IN
         /\ th.after = out.cache
         /\ th.ret = out.ret
         /\ \A k \in DictKeys(th.snap) \ DictKeys(th.after) :
              is_expired(DictGet(th.snap, k), INJURY_CACHE_TTL, th.t_read)
    [] th.op = "get_stats" ->
         /\ th.after = th.snap
         /\ th.ret = CacheGetStats(th.snap, INJURY_CACHE_TTL, th.t_read)
    [] th.op = "__len__" -> th.after = th.snap /\ th.ret = Len(th.snap)

(* C12: under any interleaving of get, set, clear, clear_expired, get_stats and len    *)
(* from concurrent threads, at most one thread is inside a method body and it holds    *)
(* the lock; every completed call raised nothing and had the outcome of the method run *)
(* alone on the cache it found when it took the lock, so a get returns None or a whole *)
(* entry, and clear_expired removes only entries that were expired in that cache, never *)
(* one that a set had refreshed before.                                                 *)
C12_CallsAtomic ==
  /\ \A t \in Tids : InCritical(threads[t]) => lock = t
  /\ \A t \in Tids : Completed(threads[t]) =>
       (~threads[t].raised /\ AtomicOutcome(threads[t]))

(* A set refreshed the expired entry of team 12 and clear_expired, called from the *)
(* other thread, took the lock right after it: the entry of team 12 is still stored. *)
C12_Witness ==
  \E a, b \in Tids :
    /\ a # b
    /\ Completed(threads[a]) /\ threads[a].op = "set" /\ threads[a].arg.team = <<12>>
    /\ DictHas(threads[a].snap, 12)
    /\ is_expired(DictGet(threads[a].snap, 12), INJURY_CACHE_TTL, threads[a].t_read)
    /\ Completed(threads[b]) /\ threads[b].op = "clear_expired"
    /\ threads[b].snap = threads[a].after
    /\ DictHas(threads[b].after, 12)

---------------------------------------------------------------------------
(* FeatureBuilder: the injury features, the vector and the trackers *)

(* The step is a call of build_features. *)
IsBuild == nops' # nops /\ last'.op = "build_features"

(* The request for the team's report failed: it raised inside the client. *)
FetchFailed(answer) == answer.kind \in {"request_error", "bad_answer"}

(* The entries stored for the team, and those of them not older than the TTL. *)
StoredFor(c, team_id) == {c[i][2] : i \in {j \in 1 .. Len(c) : c[j][1] = team_id}}
FreshFor(c, now, team_id) ==
  {e \in StoredFor(c, team_id) : now - DtFromisoformat(e.cached_at) <= INJURY_CACHE_TTL}

(* The adjustment a failed fetch is to fall back to. *)
FallbackAdjustment(cfg, c, now, team_id) ==
  IF FreshFor(c, now, team_id) # {}
  THEN (CHOOSE e \in FreshFor(c, now, team_id) : TRUE).adjustment
  ELSE IF cfg.INJURY_USE_STALE_CACHE /\ StoredFor(c, team_id) # {}
  THEN (CHOOSE e \in StoredFor(c, team_id) : TRUE).adjustment
  ELSE 0

(* C15: when injury adjustments are enabled and the fetch of the home team's report   *)
(* fails, the home adjustment is that of the team's fresh cache entry if there is one, *)
(* otherwise that of its expired entry if stale reads are permitted and there is one,  *)
(* otherwise 0; and build_features raises only when INJURY_FALLBACK_ON_ERROR is false. *)
C15_FailedFetchFallsBack ==
  [][(IsBuild /\ InjuryAdjustmentsEnabled(config)
        /\ FetchFailed(last'.arg.answers[last'.arg.call.home_id]))
       => IF last'.ret.raised THEN ~config.INJURY_FALLBACK_ON_ERROR
          ELSE last'.ret.adj[1] =
                 FallbackAdjustment(config, _cache, clock, last'.arg.call.home_id)]_vars

(* C16: build_features returns a vector of exactly 31 values, the i-th being the value *)
(* named by FEATURE_COLS[i], whatever is missing: unseen ids, empty histories, no      *)
(* moneylines, adjustments disabled, an empty or stale cache, a failed fetch. It       *)
(* raises only when a fetch raised and INJURY_FALLBACK_ON_ERROR is false.               *)
C16_AlwaysFullVector ==
  [][IsBuild =>
       IF last'.ret.raised
       THEN /\ ~config.INJURY_FALLBACK_ON_ERROR
            /\ \E t \in {last'.arg.call.home_id, last'.arg.call.away_id} :
                 FetchFailed(last'.arg.answers[t])
       ELSE /\ Len(last'.ret.features) = 31
            /\ Len(FEATURE_COLS) = 31
            /\ \A i \in 1 .. 31 : last'.ret.features[i] = last'.ret.named[FEATURE_COLS[i]]]_vars

(* build_features was called with an id no tracker has seen on both sides, the fetch *)
(* raised, fallback is enabled, and the call returned 31 values.                      *)
C16_Witness ==
  /\ last.op = "build_features"
  /\ last.arg.call.home_id = UnseenId /\ last.arg.call.away_id = UnseenId
  /\ last.arg.answers[UnseenId].kind = "bad_answer"
  /\ config = DefaultConfig
  /\ ~last.ret.raised
  /\ Len(last.ret.features) = 31

(* C17: when adjustments are enabled and a non-zero adjustment is applied to either   *)
(* side, elo_diff is adjusted_home - adjusted_away and elo_prob is the matchup        *)
(* probability of the same adjusted ratings (home-court advantage included).           *)
C17_DerivedFromAdjusted ==
  [][(IsBuild /\ ~last'.ret.raised /\ InjuryAdjustmentsEnabled(config)
        /\ last'.ret.adj # <<0, 0>>)
       => LET f == last'.ret.named
              adjusted_home == get_elo(ratings, last'.arg.call.home_id) + last'.ret.adj[1]
              adjusted_away == get_elo(ratings, last'.arg.call.away_id) + last'.ret.adj[2]
          IN /\ f.elo_home = adjusted_home
             /\ f.elo_away = adjusted_away
             /\ f.elo_diff = adjusted_home - adjusted_away
             /\ f.elo_prob = Logistic(adjusted_home - adjusted_away
                                        + HOME_COURT_ADVANTAGE * Scale)]_vars

(* C18: build_features changes no tracker state: the documents a save would write *)
(* for the rating map and for the history map are the same before and after it.     *)
C18_TrackersUntouched ==
  [][IsBuild => /\ EloSave(ratings') = EloSave(ratings)
                /\ StatsSave(team_games') = StatsSave(team_games)]_vars

---------------------------------------------------------------------------
(* calculate_injury_adjustment *)

(* The step is a call of calculate_injury_adjustment. *)
IsCalc == nops' # nops /\ last'.op = "calculate_injury_adjustment"

(* Severity of a status, in quarters: out 1.0, doubtful 0.75, questionable 0.5, *)
(* day-to-day 0.25, anything else 0.                                             *)
StatedSeverity(status) ==
  CASE status \in {"Out", "OUT", "O"} -> 4
    [] status \in {"Doubtful", "D"} -> 3
    [] status \in {"Questionable", "Q"} -> 2
    [] status \in {"Day-To-Day", "DTD"} -> 1
    [] OTHER -> 0

(* Minus the sum of severity x importance x 20 over the players, in rating units; *)
(* the importance is in halves, and 1.0 when importance is not applied.            *)
StatedTotal(report, use_player_importance) ==
  LET impact(inj) ==
        (StatedSeverity(inj.status)
           * (IF use_player_importance
              THEN get_player_importance_multiplier(inj.player_name) ELSE 2)
           * 20 * Scale) \div 8
      RECURSIVE sum(_)
      sum(n) == IF n = 0 THEN 0 ELSE sum(n - 1) + impact(report.injuries[n])
  IN -sum(Len(report.injuries))

StatedAdjustment(report, use_player_importance) ==
  LET total == StatedTotal(report, use_player_importance) IN
  IF total < -100 * Scale THEN -100 * Scale
  ELSE IF -total < 5 * Scale THEN 0
  ELSE total

---------------------------------------------------------------------------
(* ConfidenceScorer *)

(* C19: for every probability, vector and pair of ids (no history, no market data, *)
(* the same id on both sides included), the score is an integer in [0,100], it is   *)
(* the sum of the five factors rounded to the nearest integer and clamped, and the  *)
(* factors lie within [0,25], [0,25], [0,20], [0,15] and [0,15].                    *)
C19_ScoreWithinBounds ==
  last.op = "calculate_confidence_score" =>
    LET f == last.ret.factors
        total == f.consensus_agreement + f.feature_alignment + f.form_stability
                   + f.schedule_context + f.matchup_history
    IN /\ last.ret.score \in 0 .. 100
       /\ 0 <= f.consensus_agreement /\ f.consensus_agreement <= 25 * PointUnit
       /\ 0 <= f.feature_alignment /\ f.feature_alignment <= 25 * PointUnit
       /\ 0 <= f.form_stability /\ f.form_stability <= 20 * PointUnit
       /\ 0 <= f.schedule_context /\ f.schedule_context <= 15 * PointUnit
       /\ 0 <= f.matchup_history /\ f.matchup_history <= 15 * PointUnit
       /\ 2 * Abs(Min(100, last.ret.score) * PointUnit - Min(100 * PointUnit, total))
            <= PointUnit

(* The scorer was called with the same id without history on both sides and a full *)
(* vector without market data whose rest advantage would lift the schedule factor   *)
(* above its maximum: the factor is 15.                                              *)
C19_Witness ==
  /\ last.op = "calculate_confidence_score"
  /\ last.arg.home_id = UnseenId /\ last.arg.away_id = UnseenId
  /\ Len(last.arg.features) = 31
  /\ FeatureGet(last.arg.features, "rest_diff", 0) >= 2
  /\ FeatureGet(last.arg.features, "market_prob_home", 500) = 500
  /\ last.ret.factors.schedule_context = 15 * PointUnit

---------------------------------------------------------------------------
(* C21: get_rest_days(id, d) of an entity with history and d on or after the date *)
(* of its last recorded game returns days = min(14, d - last date), a value in    *)
(* 0 .. 14, and is_b2b exactly when days = 1; without history it returns          *)
(* (7, False).                                                                    *)

IsRestDays == nops' # nops /\ last'.op = "get_rest_days"

(* The history of the entity when the call is made. *)
HistoryAtCall ==
  IF last'.arg.team_id \in DOMAIN team_games THEN team_games[last'.arg.team_id] ELSE <<>>

(* The day of the call's argument and of the last recorded game. *)
AskedDay ==
  IF last'.arg.game_date[1] = "date" THEN last'.arg.game_date[2]
  ELSE fromisoformat(last'.arg.game_date[2])

LastDay == fromisoformat(HistoryAtCall[Len(HistoryAtCall)].date)

C21_RestDays ==
  [][IsRestDays =>
       IF HistoryAtCall = <<>>
       THEN last'.ret = [rest_days |-> 7, is_b2b |-> FALSE]
       ELSE AskedDay >= LastDay =>
              /\ last'.ret.rest_days = (IF AskedDay - LastDay > 14 THEN 14 ELSE AskedDay - LastDay)
              /\ last'.ret.rest_days \in 0 .. 14
              /\ last'.ret.is_b2b = (last'.ret.rest_days = 1)]_vars

(* A read more than 14 days after the last game, answered with the cap. *)
C21_Witness ==
  /\ last.op = "get_rest_days"
  /\ last.arg.team_id \in DOMAIN team_games
  /\ team_games[last.arg.team_id] # <<>>
  /\ last.arg.game_date = <<"date", 16>>
  /\ last.ret = [rest_days |-> 14, is_b2b |-> FALSE]

---------------------------------------------------------------------------
(* C22: preview_game leaves the ratings, the histories and the set of processed   *)
(* keys unchanged, and for a finalized result with both ids resolved its          *)
(* new_home_elo and new_away_elo are, rounded to one decimal, the ratings that    *)
(* process_game(result) produces from the same state.                             *)

IsPreview == nops' # nops /\ last'.op = "preview_game"

(* The ratings after process_game(result) from the state the preview was made in. *)
RatingsIfProcessed(result) == process_game(CurMem, result, FALSE).mem.ratings

C22_PreviewMatchesProcess ==
  [][IsPreview =>
       LET result == last'.arg.result IN
       /\ TrackersUnchanged
       /\ is_final(result) /\ IdsResolved(result) =>
            /\ last'.ret.new_home_elo
                 = Round1(get_elo(RatingsIfProcessed(result), result.home_team_id))
            /\ last'.ret.new_away_elo
                 = Round1(get_elo(RatingsIfProcessed(result), result.away_team_id))]_vars

---------------------------------------------------------------------------
(* C23: each accepted process_game call updates the two ratings and appends       *)
(* exactly one record to the home history and one to the away history, both dated *)
(* result.game_date: the home record has (pf, pa) = (home_score, away_score), the *)
(* away record (away_score, home_score), and won is true on exactly the side that *)
(* scored more points.                                                            *)

IsAcceptedProcess == nops' # nops /\ last'.op = "process_game" /\ last'.ret = TRUE

HistOf(tg, team_id) == IF team_id \in DOMAIN tg THEN tg[team_id] ELSE <<>>

StatedHomeRecord(result) ==
  [pf |-> result.home_score, pa |-> result.away_score,
   won |-> (result.home_score > result.away_score), date |-> result.game_date]

StatedAwayRecord(result) ==
  [pf |-> result.away_score, pa |-> result.home_score,
   won |-> (result.away_score > result.home_score), date |-> result.game_date]

C23_OneRecordPerSide ==
  [][IsAcceptedProcess =>
       LET result == last'.arg.result
           h == result.home_team_id
           a == result.away_team_id IN
       /\ ratings' = EloUpdate(ratings, h, a, result.home_score > result.away_score)
       /\ IF h # a
          THEN /\ team_games'[h] = DequeAppend(HistOf(team_games, h), StatedHomeRecord(result))
               /\ team_games'[a] = DequeAppend(HistOf(team_games, a), StatedAwayRecord(result))
          ELSE team_games'[h] = DequeAppend(DequeAppend(HistOf(team_games, h),
                                                        StatedHomeRecord(result)),
                                            StatedAwayRecord(result))]_vars

---------------------------------------------------------------------------
(* C29: preview_game(result)['would_process'] is true exactly when                *)
(* process_game(result, force=False) in the same state would return True.         *)

C29_PreviewAgreesWithProcess ==
  [][IsPreview =>
       (last'.ret.would_process = process_game(CurMem, last'.arg.result, FALSE).ret)]_vars

---------------------------------------------------------------------------
(* C24: in a backfill run over consecutive dates apply_season_regression is called *)
(* exactly once for each season transition (the first date in October or later     *)
(* that follows a pre-October date) and at no other date, also when fetching the   *)
(* games of some dates fails.                                                      *)

(* The calendar's season transitions: a date in October or later whose eve is not. *)
SeasonTransition(day) == Month(day) >= 10 /\ Month(day - 1) < 10

TimesRegressed(day) ==
  Cardinality({i \in 1 .. Len(backfill.regressed) : backfill.regressed[i] = day})

C24_RegressionOncePerSeason ==
  backfill.phase # "idle" /\ ~backfill.dry_run =>
    /\ \A i \in 1 .. Len(backfill.regressed) :
         backfill.regressed[i] \in backfill.start_date .. backfill.current_date - 1
    /\ \A day \in backfill.start_date .. backfill.current_date - 1 :
         TimesRegressed(day) = IF SeasonTransition(day) THEN 1 ELSE 0

---------------------------------------------------------------------------
(* C26: StateManager.save is atomic with respect to an interruption between any   *)
(* two of its steps: whenever a save call ends, completed or interrupted, the two *)
(* live files are both from that save or both as they were, and the two .bak      *)
(* files are both the live files the save found or both as they were.             *)

IsSaveCall == nops' # nops /\ last'.op \in {"save", "save_interrupted"}

LivePairFromOneSave ==
  \/ elo_file' = elo_file /\ stats_file' = stats_file
  \/ elo_file' = FileOf(EloSave(ratings)) /\ stats_file' = FileOf(StatsSave(team_games))

BackupPairFromOneSave ==
  \/ elo_bak' = elo_bak /\ stats_bak' = stats_bak
  \/ elo_bak' = elo_file /\ stats_bak' = stats_file

C26_SaveIsAtomic ==
  [][IsSaveCall => LivePairFromOneSave /\ BackupPairFromOneSave]_vars

---------------------------------------------------------------------------
(* C30: restore_backup changes only the live ratings and history files: metadata  *)
(* and the two .bak files are the same before and after the call, whether it      *)
(* returns True or False.                                                         *)

IsRestore == nops' # nops /\ last'.op = "restore_backup"

C30_RestoreFrame ==
  [][IsRestore => /\ metadata' = metadata
                  /\ elo_bak' = elo_bak
                  /\ stats_bak' = stats_bak]_vars

(* A restore that returned True and replaced live files that differed from the *)
(* backups, in a directory that has metadata.                                  *)
C30_Witness ==
  /\ last.op = "restore_backup"
  /\ last.ret = TRUE
  /\ Exists(metadata)
  /\ Exists(elo_bak)
  /\ elo_file = elo_bak
  /\ stats_file = stats_bak
  /\ last.prev \in {"save", "save_interrupted"}

---------------------------------------------------------------------------
(* C27: prefetch_all_injuries returns the number of teams it wrote to the cache    *)
(* during the call: a positive return value is the number of cache.set calls made, *)
(* and a return of 0 means the cache holds no entry written by that call.          *)

IsPrefetch == nops' # nops /\ last'.op = "prefetch_all_injuries"

C27_ReturnCountsWrites ==
  [][IsPrefetch =>
       /\ last'.ret.ret > 0 => last'.ret.ret = last'.ret.sets
       /\ last'.ret.ret = 0 => (last'.ret.sets = 0 /\ _cache' = _cache)]_vars

---------------------------------------------------------------------------
(* C25: with the availability features enabled and the upstream report unchanged,  *)
(* build_features returns the same availability fields (players out, players       *)
(* questionable, severity) whether the report is served from the cache or freshly  *)
(* fetched: two consecutive builds of the same matchup with the same inputs return *)
(* identical vectors.                                                              *)

(* A build that directly follows a build with the same arguments and the same *)
(* answers of the upstream, neither of which raised.                          *)
IsRepeatedBuild ==
  /\ IsBuild
  /\ last.op = "build_features"
  /\ last'.arg = last.arg
  /\ InjuryAdjustmentsEnabled(config)
  /\ ~last.ret.raised
  /\ ~last'.ret.raised

C25_CachedEqualsFresh ==
  [][IsRepeatedBuild => last'.ret.features = last.ret.features]_vars

---------------------------------------------------------------------------
(* C28: get_global_cache returns the same InjuryCache instance to every caller,    *)
(* also when the first calls run concurrently in several threads, so an entry set  *)
(* through one is visible through any other.                                       *)

Returned(t) == callers[t].pc = "done"

C28_OneInstanceForAll ==
  \A t \in GlobalCallers, u \in GlobalCallers :
    Returned(t) /\ Returned(u) =>
      /\ callers[t].ret = callers[u].ret
      /\ DictKeys(instances[callers[t].ret]) = DictKeys(instances[callers[u].ret])

====
